---- MODULE Spec2Model ----
(***************************************************************************)
(* Observation pipeline of dev-agent-lab (src/src/observation).            *)
(*                                                                         *)
(* A text is a sequence of tokens.  A token <<kind, a, b>> stands for one  *)
(* whitespace-delimited phrase of the input; a and b are the numbers the   *)
(* phrase carries (0 when it carries none).  Adjacent tokens are separated *)
(* by one blank, except that "dot" attaches to the token before it.        *)
(*                                                                         *)
(*   kind        surface                 kind        surface               *)
(*   ws          "\t" (extra blank)      nl          "\n"                  *)
(*   dot         "."                     word        "foo"                 *)
(*   yr          "<a> year"              mo          "<a> months"          *)
(*   wk          "<a> weeks"             dy          "<a> days"            *)
(*   dplus       "D+<a>"                 num         "<a>"                 *)
(*   range_ko    "인원은 <a>~<b>명"      range_en    "<a> to <b> people"   *)
(*   range_of    "team of <a>-<b>"       inwin       "인원은 <a>명"        *)
(*   team_of     "team of <a>"           people      "<a> people"          *)
(*   myung       "<a>명"                 damdang     "담당 <a>명"          *)
(*   pohaam      "<a>명 포함"            ideally     "ideally"             *)
(*   preferred   "preferred"             prefers     "prefers"             *)
(*   best        "best"                  seonho      "선호"                *)
(*   maybe       "maybe"                 tbd         "TBD"                 *)
(*   security    "security"              compliance  "compliance"          *)
(*   keomp       "컴플라이언스"          wsl         "WSL"                 *)
(*   must        "Must have:"            nice        "Nice to have:"       *)
(*   comma       "," (attaches left)     item        a five-letter word    *)
(*   constraints "Constraints:"          python      "Python"              *)
(*   core        "Core requirement is"   optional    "Optional:"           *)
(*   llm_forbidden "LLM is forbidden"    on_linux    "on Linux"            *)
(*   unc         the a-th word of UncWords (one uncertainty keyword each)  *)
(*   item <a> is the a-th of alpha, bravo, delta, gamma, kappa, omega, ... *)
(***************************************************************************)
EXTENDS Integers, Sequences, FiniteSets, TLC

\* ---------------------------------------------------------------- bounds
MaxTok == 3          \* longest enumerated input, in tokens
MaxNum == 2          \* the variable number carried by enumerated tokens

\* ------------------------------------------------------- program constants
DAYS_PER_WEEK  == 7
DAYS_PER_MONTH == 30
DAYS_PER_YEAR  == 365
TEAM_MAX       == 1000
NONE           == -1      \* Python None for Optional[int] (all values are >= 0)

\* ------------------------------------------------------------------ tokens
Tk(k)        == <<k, 0, 0>>
Tk1(k, a)    == <<k, a, 0>>
Tk2(k, a, b) == <<k, a, b>>
Kind(t) == t[1]
NumA(t) == t[2]
NumB(t) == t[3]

RECURSIVE SeqFilterKinds(_, _)
\* the tokens of s whose kind is not in drop, in order
SeqFilterKinds(s, drop) ==
    IF s = << >> THEN << >>
    ELSE IF Kind(Head(s)) \in drop THEN SeqFilterKinds(Tail(s), drop)
         ELSE <<Head(s)>> \o SeqFilterKinds(Tail(s), drop)

\* re.search: index of the first token of s of one of the kinds, 0 when
\* there is none
FirstIdx(s, kinds) ==
    IF \E i \in 1..Len(s) : Kind(s[i]) \in kinds
    THEN CHOOSE i \in 1..Len(s) :
            Kind(s[i]) \in kinds /\ \A j \in 1..(i-1) : Kind(s[j]) \notin kinds
    ELSE 0

\* ------------------------------------------------------------- normalizer
WhiteKinds == {"ws", "nl"}
\* the test `not user_input` alone, without the strip
IsBlank_EmptyOnly(text) == text = << >>

\* `not user_input or not user_input.strip()`
IsBlank(text) == \A i \in 1..Len(text) : Kind(text[i]) \in WhiteKinds

RECURSIVE StripLeft(_)
StripLeft(s) ==
    IF s # << >> /\ Kind(Head(s)) \in WhiteKinds THEN StripLeft(Tail(s)) ELSE s

RECURSIVE StripRight(_)
StripRight(s) ==
    IF s # << >> /\ Kind(s[Len(s)]) \in WhiteKinds
    THEN StripRight(SubSeq(s, 1, Len(s) - 1)) ELSE s

Strip(s) == StripRight(StripLeft(s))

RECURSIVE SplitOn(_, _)
\* re.split(r'[.\n!?]+', text): the fragments between separator tokens
SplitOn(s, cur) ==
    IF s = << >> THEN <<cur>>
    ELSE IF Kind(Head(s)) \in {"dot", "nl"}
         THEN <<cur>> \o SplitOn(Tail(s), << >>)
         ELSE SplitOn(Tail(s), Append(cur, Head(s)))

RECURSIVE KeepNonEmpty(_)
KeepNonEmpty(frags) ==
    IF frags = << >> THEN << >>
    ELSE IF Strip(Head(frags)) = << >> THEN KeepNonEmpty(Tail(frags))
         ELSE <<Strip(Head(frags))>> \o KeepNonEmpty(Tail(frags))

\* _segment_sentences: split, strip each fragment, drop the empty ones
SegmentSentences(text) == KeepNonEmpty(SplitOn(text, << >>))

\* _normalize_text: every run of whitespace becomes the single blank that
\* separates two tokens, leading and trailing whitespace is removed
NormalizeText(text) == SeqFilterKinds(text, WhiteKinds)

\* normalize: the fields of NormalizeResult the pipeline reads
Normalize(text) ==
    IF IsBlank(text)
    THEN [normalized |-> << >>, sentences |-> << >>]
    ELSE [normalized |-> NormalizeText(text), sentences |-> SegmentSentences(text)]

\* ----------------------------------------------------- keyword containment
\* The keywords (lower-cased substrings the code tests with `in`) that the
\* surface of a token of each kind contains.  Korean keywords are written
\* romanised: "inwon" 인원, "myeong" 명, "seonho" 선호, "boan" 보안,
\* "keompeullaieonseu" 컴플라이언스.
KW(k) ==
    CASE k = "range_ko"   -> {"inwon", "myeong"}
      [] k = "range_en"   -> {"people"}
      [] k = "range_of"   -> {"team"}
      [] k = "inwin"      -> {"inwon", "myeong"}
      [] k = "team_of"    -> {"team"}
      [] k = "people"     -> {"people"}
      [] k = "myung"      -> {"myeong"}
      [] k = "damdang"    -> {"myeong"}
      [] k = "pohaam"     -> {"myeong"}
      [] k = "ideally"    -> {"ideally"}
      [] k = "preferred"  -> {"prefer", "preferred"}
      [] k = "prefers"    -> {"prefer"}
      [] k = "best"       -> {"best"}
      [] k = "seonho"     -> {"seonho"}
      [] k = "maybe"      -> {"maybe"}
      [] k = "tbd"        -> {"tbd"}
      [] k = "security"   -> {"security"}
      [] k = "compliance" -> {"compliance"}
      [] k = "keomp"      -> {"keompeullaieonseu"}
      [] k = "wsl"        -> {"wsl"}
      [] k = "secsgem"    -> {"secs/gem"}
      [] k = "traceability" -> {"traceability"}
      [] k = "audit"      -> {"audit"}
      [] k = "rbac"       -> {"rbac"}
      [] k = "no_internet" -> {"no internet"}
      [] k = "on_linux"   -> {"linux"}
      [] k = "python"     -> {"python"}
      [] k = "llm_forbidden" -> {"forbidden"}
      [] OTHER            -> {}

\* words that each contain exactly one of the UNCERTAINTY_KEYWORDS
UncWords ==
    <<"perhaps", "possibly", "might", "likely", "probably", "within",
      "around", "about", "flexible", "evolving", "changing", "tight", "sooner">>

\* the keywords the surface of token t contains
TokKW(t) == IF Kind(t) = "unc" THEN {UncWords[NumA(t) + 1]} ELSE KW(Kind(t))

\* `kw in text.lower()`
Has(text, kw) == \E i \in 1..Len(text) : kw \in TokKW(text[i])

\* the tokens a regular expression can see: whitespace between two tokens
\* is matched by the \s* / \s+ every pattern has between its parts
Vis(span) == SeqFilterKinds(span, WhiteKinds)

\* ------------------------------------------------------------ ExtractResult
\* Optional[ExtractResult] is a sequence of length 0 (None) or 1.
\* confidence is in hundredths.  value is the int payload, vmin/vmax the
\* range payload (isRange), must_have/nice_to_have the RequirementsResult.
ExtractResult(name, val, conf, ev) ==
    [extractor |-> name, value |-> val, isRange |-> FALSE,
     vmin |-> NONE, vmax |-> NONE,
     must_have |-> << >>, nice_to_have |-> << >>,
     confidence |-> conf, evidence |-> ev]

\* -------------------------------------------------------- DeadlineExtractor
\* to_days with a 31-day month
ToDays_Month31(c) ==
    c.years * DAYS_PER_YEAR + c.months * 31 + c.weeks * DAYS_PER_WEEK + c.days

\* TimeComponents.to_days
ToDays(c) ==
    c.years * DAYS_PER_YEAR + c.months * DAYS_PER_MONTH
        + c.weeks * DAYS_PER_WEEK + c.days

\* TimeComponents.is_empty
IsEmpty(c) == c.years = 0 /\ c.months = 0 /\ c.weeks = 0 /\ c.days = 0

\* _scan_time_components: the first match of each unit pattern, 0 when the
\* unit does not match; evidence parts in the order year, month, week, day
ScanTimeComponents(span) ==
    LET y == FirstIdx(span, {"yr"})
        m == FirstIdx(span, {"mo"})
        w == FirstIdx(span, {"wk"})
        d == FirstIdx(span, {"dy"})
    IN [years  |-> IF y > 0 THEN NumA(span[y]) ELSE 0,
        months |-> IF m > 0 THEN NumA(span[m]) ELSE 0,
        weeks  |-> IF w > 0 THEN NumA(span[w]) ELSE 0,
        days   |-> IF d > 0 THEN NumA(span[d]) ELSE 0,
        evidence |-> (IF y > 0 THEN <<span[y]>> ELSE << >>)
                  \o (IF m > 0 THEN <<span[m]>> ELSE << >>)
                  \o (IF w > 0 THEN <<span[w]>> ELSE << >>)
                  \o (IF d > 0 THEN <<span[d]>> ELSE << >>)]

\* DeadlineExtractor._calculate_confidence
DeadlineConfidence(c) ==
    LET component_count ==
            (IF c.years > 0 THEN 1 ELSE 0) + (IF c.months > 0 THEN 1 ELSE 0)
          + (IF c.weeks > 0 THEN 1 ELSE 0) + (IF c.days > 0 THEN 1 ELSE 0)
    IN IF component_count >= 2 THEN 95
       ELSE IF c.years > 0 THEN 85
       ELSE IF c.months > 0 THEN 85
       ELSE IF c.weeks > 0 THEN 85
       ELSE IF c.days > 0 THEN 80
       ELSE 70

\* _extract_d_plus: the first D+N of the span
ExtractDPlus(span) ==
    LET i == FirstIdx(span, {"dplus"})
    IN IF i > 0
       THEN <<ExtractResult("deadline", NumA(span[i]), 90, <<span[i]>>)>>
       ELSE << >>

\* _extract_from_sentence
ExtractFromSentence(text) ==
    LET span == Vis(text)
        d_plus_result == ExtractDPlus(span)
        components == ScanTimeComponents(span)
    IN IF d_plus_result # << >> THEN d_plus_result
       ELSE IF IsEmpty(components) THEN << >>
       ELSE <<ExtractResult("deadline", ToDays(components),
                            DeadlineConfidence(components), components.evidence)>>

RECURSIVE BestOfSentences(_, _)
\* the loop of DeadlineExtractor.extract over the sentences; best is the
\* Optional best_result, best_days is its value (0 when None)
BestOfSentences(sentences, best) ==
    IF sentences = << >> THEN best
    ELSE LET result == ExtractFromSentence(Head(sentences))
             best_days == IF best = << >> THEN 0 ELSE best[1].value
         IN IF result # << >> /\ result[1].value > best_days
            THEN BestOfSentences(Tail(sentences), result)
            ELSE BestOfSentences(Tail(sentences), best)

\* extract preferring the full-text result whenever there is one
DeadlineExtract_FullTextFirst(normalized_text, sentences) ==
    LET best_result == BestOfSentences(sentences, << >>)
        full_result == ExtractFromSentence(normalized_text)
    IN IF full_result # << >> THEN full_result ELSE best_result

\* extract with `>=` in the test of the full-text result
DeadlineExtract_FullTextOnTie(normalized_text, sentences) ==
    LET best_result == BestOfSentences(sentences, << >>)
        best_days == IF best_result = << >> THEN 0 ELSE best_result[1].value
        full_result == ExtractFromSentence(normalized_text)
    IN IF full_result # << >> /\ full_result[1].value >= best_days
       THEN full_result
       ELSE best_result

\* DeadlineExtractor.extract
DeadlineExtract(normalized_text, sentences) ==
    LET best_result == BestOfSentences(sentences, << >>)
        best_days == IF best_result = << >> THEN 0 ELSE best_result[1].value
        full_result == ExtractFromSentence(normalized_text)
    IN IF full_result # << >> /\ full_result[1].value > best_days
       THEN full_result
       ELSE best_result

\* -------------------------------------------------------- TeamSizeExtractor
\* RANGE_PATTERNS and SINGLE_PATTERNS, by pattern name, in table order
RANGE_PATTERNS ==
    <<"inwin_range", "team_range", "simple_range_ko", "range_en",
      "team_size_range", "team_is_range">>
SINGLE_PATTERNS ==
    <<"inwin_format", "team_format", "developer_format", "team_of_format",
      "team_size_format", "n_developers_format", "ppl_format",
      "n_myung_context", "simple_myung">>

\* the token kinds whose surface a range pattern matches (both numbers are
\* captured in surface order)
RangeKinds(pattern_name) ==
    CASE pattern_name = "inwin_range"     -> {"range_ko"}
      [] pattern_name = "simple_range_ko" -> {"range_ko"}
      [] pattern_name = "range_en"        -> {"range_en"}
      [] pattern_name = "team_size_range" -> {"range_of"}
      [] OTHER                            -> {}

\* pattern.search(text) for a range pattern: index of the leftmost match
SearchRange(pattern_name, span) ==
    FirstIdx(span, RangeKinds(pattern_name))

\* the token kinds a single-value pattern matches
SingleKinds(pattern_name) ==
    CASE pattern_name = "inwin_format"        -> {"inwin"}
      [] pattern_name = "team_of_format"      -> {"team_of", "range_of"}
      [] pattern_name = "n_developers_format" -> {"people", "range_en"}
      [] pattern_name = "simple_myung"        -> {"myung", "inwin", "range_ko"}
      [] OTHER                                -> {}

\* the number a single-value pattern captures in a token it matches: the
\* number right before the unit word ("<a> to <b> people", "인원은 <a>~<b>명"
\* give b), the number right after "team of" ("team of <a>-<b>" gives a)
SingleCapture(t) ==
    IF Kind(t) \in {"range_en", "range_ko"} THEN NumB(t) ELSE NumA(t)

\* pattern.search(text) for a single-value pattern.  simple_myung carries
\* the lookahead (?!.*포함): no "포함" anywhere after the match
SearchSingle(pattern_name, span) ==
    IF pattern_name = "simple_myung"
    THEN IF \E i \in 1..Len(span) :
               /\ Kind(span[i]) \in SingleKinds(pattern_name)
               /\ \A j \in (i+1)..Len(span) : Kind(span[j]) # "pohaam"
         THEN CHOOSE i \in 1..Len(span) :
               /\ Kind(span[i]) \in SingleKinds(pattern_name)
               /\ \A j \in (i+1)..Len(span) : Kind(span[j]) # "pohaam"
               /\ \A h \in 1..(i-1) :
                     ~ (/\ Kind(span[h]) \in SingleKinds(pattern_name)
                        /\ \A j \in (h+1)..Len(span) : Kind(span[j]) # "pohaam")
         ELSE 0
    ELSE FirstIdx(span, SingleKinds(pattern_name))

MatchesExclusion(span) == \E i \in 1..Len(span) : Kind(span[i]) \in {"damdang", "pohaam"}

\* _validate_range without the min_val > max_val test
ValidateRange_NoOrder(min_val, max_val) ==
    IF min_val < 1 \/ max_val < 1 THEN FALSE
    ELSE IF max_val > TEAM_MAX THEN FALSE
    ELSE TRUE

\* _validate_range
ValidateRange(min_val, max_val) ==
    IF min_val < 1 \/ max_val < 1 THEN FALSE
    ELSE IF min_val > max_val THEN FALSE
    ELSE IF max_val > TEAM_MAX THEN FALSE
    ELSE TRUE

\* the single-value filter of _extract_from_text (1..1000)
ValidSingle(team_size) == ~ (team_size < 1 \/ team_size > TEAM_MAX)

\* CONTEXT_KEYWORDS without 명
CONTEXT_KEYWORDS_WithoutMyeong ==
    {"tim", "team", "inwon", "illyeok", "gaebalja", "developer", "engineer",
     "member", "people", "ppl"}

CONTEXT_KEYWORDS ==
    {"tim", "team", "inwon", "illyeok", "gaebalja", "developer", "engineer",
     "member", "people", "ppl", "myeong"}

\* the base-confidence tables of _calculate_confidence
RangeBase(pattern_name) ==
    CASE pattern_name = "inwin_range"     -> 95
      [] pattern_name = "team_range"      -> 95
      [] pattern_name = "simple_range_ko" -> 85
      [] pattern_name = "range_en"        -> 90
      [] pattern_name = "team_size_range" -> 90
      [] OTHER                            -> 80
SingleBase(pattern_name) ==
    CASE pattern_name = "inwin_format"        -> 95
      [] pattern_name = "team_format"         -> 95
      [] pattern_name = "developer_format"    -> 90
      [] pattern_name = "team_of_format"      -> 90
      [] pattern_name = "team_size_format"    -> 95
      [] pattern_name = "n_developers_format" -> 85
      [] pattern_name = "ppl_format"          -> 85
      [] pattern_name = "n_myung_context"     -> 80
      [] pattern_name = "simple_myung"        -> 60
      [] OTHER                                -> 50

Min(a, b) == IF a < b THEN a ELSE b
Max(a, b) == IF a > b THEN a ELSE b

\* _calculate_confidence returning base + bonus without min(1.0, ...)
TeamConfidence_Uncapped(pattern_name, span, is_range) ==
    LET base_confidence ==
            IF is_range THEN RangeBase(pattern_name) ELSE SingleBase(pattern_name)
        context_bonus ==
            IF \E kw \in CONTEXT_KEYWORDS : Has(span, kw) THEN 10 ELSE 0
    IN base_confidence + context_bonus

\* TeamSizeExtractor._calculate_confidence
TeamConfidence(pattern_name, span, is_range) ==
    LET base_confidence ==
            IF is_range THEN RangeBase(pattern_name) ELSE SingleBase(pattern_name)
        context_bonus ==
            IF \E kw \in CONTEXT_KEYWORDS : Has(span, kw) THEN 10 ELSE 0
    IN Min(100, base_confidence + context_bonus)

RECURSIVE TryRange(_, _)
\* loop 1 of _extract_from_text: the first range pattern, in table order,
\* whose leftmost match is a valid range; a pattern whose match is invalid
\* is skipped (continue)
TryRange(patterns, span) ==
    IF patterns = << >> THEN << >>
    ELSE LET pattern_name == Head(patterns)
             i == SearchRange(pattern_name, span)
         IN IF i > 0 /\ ValidateRange(NumA(span[i]), NumB(span[i]))
            THEN <<[ExtractResult("team_size", NONE,
                        TeamConfidence(pattern_name, span, TRUE), <<span[i]>>)
                    EXCEPT !.isRange = TRUE,
                           !.vmin = NumA(span[i]), !.vmax = NumB(span[i])]>>
            ELSE TryRange(Tail(patterns), span)

RECURSIVE TrySingle(_, _)
\* loop 3 of _extract_from_text
TrySingle(patterns, span) ==
    IF patterns = << >> THEN << >>
    ELSE LET pattern_name == Head(patterns)
             i == SearchSingle(pattern_name, span)
         IN IF i > 0 /\ ValidSingle(SingleCapture(span[i]))
            THEN <<ExtractResult("team_size", SingleCapture(span[i]),
                        TeamConfidence(pattern_name, span, FALSE), <<span[i]>>)>>
            ELSE TrySingle(Tail(patterns), span)

\* TeamSizeExtractor._extract_from_text
TeamExtractFromText(text) ==
    LET span == Vis(text)
        range_result == TryRange(RANGE_PATTERNS, span)
    IN IF range_result # << >> THEN range_result
       ELSE IF MatchesExclusion(span) THEN << >>
       ELSE TrySingle(SINGLE_PATTERNS, span)

RECURSIVE TeamFirstSentence(_)
TeamFirstSentence(sentences) ==
    IF sentences = << >> THEN << >>
    ELSE LET result == TeamExtractFromText(Head(sentences))
         IN IF result # << >> THEN result ELSE TeamFirstSentence(Tail(sentences))

\* TeamSizeExtractor.extract: the whole text first, then sentence by sentence
TeamExtract(normalized_text, sentences) ==
    LET result == TeamExtractFromText(normalized_text)
    IN IF result # << >> THEN result ELSE TeamFirstSentence(sentences)

\* ---------------------------------------------------- RequirementsExtractor
\* MUST_HAVE_STARTERS / NICE_TO_HAVE_STARTERS: the token kinds the starter
\* patterns of the family match, in table order ("Must have:", "Core
\* requirement is" / "Nice to have:", "Optional:")
StarterKinds(family) ==
    IF family = "must" THEN <<"must", "core">> ELSE <<"nice", "optional">>
Opposite(family) == IF family = "must" THEN "nice" ELSE "must"

\* tokens written without a blank before them
AttachedKinds == {"dot", "comma"}

\* number of decimal digits of n
Digits(n) == IF n < 10 THEN 1 ELSE IF n < 100 THEN 2 ELSE IF n < 1000 THEN 3 ELSE 4

\* len() of the surface of a token
CharLen(t) ==
    LET k == Kind(t) a == Digits(NumA(t)) b == Digits(NumB(t))
    IN CASE k \in {"dot", "comma", "ws", "nl"} -> 1
         [] k = "word"  -> 3
         [] k = "yr"    -> a + 5
         [] k = "mo"    -> a + 7
         [] k = "wk"    -> a + 6
         [] k = "dy"    -> a + 5
         [] k = "dplus" -> a + 2
         [] k = "num"   -> a
         [] k = "range_ko" -> a + b + 6
         [] k = "range_en" -> a + b + 11
         [] k = "range_of" -> a + b + 9
         [] k = "inwin"    -> a + 5
         [] k = "team_of"  -> a + 8
         [] k = "people"   -> a + 7
         [] k = "myung"    -> a + 1
         [] k = "damdang"  -> a + 4
         [] k = "pohaam"   -> a + 4
         [] k = "ideally"  -> 7
         [] k = "preferred" -> 9
         [] k = "prefers"  -> 7
         [] k = "best"     -> 4
         [] k = "seonho"   -> 2
         [] k = "maybe"    -> 5
         [] k = "tbd"      -> 3
         [] k = "security" -> 8
         [] k = "compliance" -> 10
         [] k = "keomp"    -> 6
         [] k = "wsl"      -> 3
         [] k = "secsgem"  -> 8
         [] k = "traceability" -> 12
         [] k = "audit"    -> 5
         [] k = "rbac"     -> 4
         [] k = "no_internet" -> 11
         [] k = "must"     -> 10
         [] k = "nice"     -> 13
         [] k = "item"     -> 5
         [] k = "constraints" -> 12
         [] k = "python"   -> 6
         [] k = "llm_forbidden" -> 16
         [] k = "on_linux" -> 8
         [] k = "core"     -> 19
         [] k = "optional" -> 9
         [] k = "unc" -> 7
         [] OTHER -> 1

RECURSIVE StrLen(_)
\* len() of a stripped string: the tokens and the blanks between them
StrLen(s) ==
    IF s = << >> THEN 0
    ELSE CharLen(Head(s))
         + (IF Len(s) > 1 /\ Kind(s[2]) \notin AttachedKinds THEN 1 ELSE 0)
         + StrLen(Tail(s))

RECURSIVE RStripDots(_)
\* item.rstrip('.')
RStripDots(s) ==
    IF s # << >> /\ Kind(s[Len(s)]) = "dot"
    THEN RStripDots(SubSeq(s, 1, Len(s) - 1)) ELSE s

\* _clean_item: longer than 60 characters is a sentence, not an item
CleanItem(item) == IF StrLen(item) > 60 THEN << >> ELSE RStripDots(item)

RECURSIVE SplitComma(_, _)
\* ITEM_SPLIT_PATTERN.split
SplitComma(s, cur) ==
    IF s = << >> THEN <<cur>>
    ELSE IF Kind(Head(s)) = "comma"
         THEN <<cur>> \o SplitComma(Tail(s), << >>)
         ELSE SplitComma(Tail(s), Append(cur, Head(s)))

RECURSIVE CleanAll(_)
CleanAll(items) ==
    IF items = << >> THEN << >>
    ELSE IF CleanItem(Head(items)) = << >> THEN CleanAll(Tail(items))
         ELSE <<CleanItem(Head(items))>> \o CleanAll(Tail(items))

\* _split_items
SplitItems(section) == CleanAll(SplitComma(section, << >>))

\* end_pos of _extract_section for the starter at index st: the nearest of
\* a section terminator, an opposite-family starter, a match of another
\* starter pattern of the same family (`if other_starter != starter`)
SectionEnd(span, st, family) ==
    LET exclude_starters == StarterKinds(Opposite(family))
        starters == StarterKinds(family)
        Stop(j) == \/ Kind(span[j]) \in {"constraints", "nice", "must", "team_of", "range_of"}
                   \/ \E p \in 1..Len(exclude_starters) :
                         Kind(span[j]) = exclude_starters[p]
                   \/ \E p \in 1..Len(starters) :
                         /\ starters[p] # Kind(span[st])
                         /\ Kind(span[j]) = starters[p]
    IN IF \E j \in (st+1)..Len(span) : Stop(j)
       THEN CHOOSE j \in (st+1)..Len(span) :
                Stop(j) /\ \A h \in (st+1)..(j-1) : ~Stop(h)
       ELSE Len(span) + 1

\* ITEM_END_PATTERN on the section: a full stop followed by a blank or by
\* the end of the section cuts the section before it
CutAtItemEnd(section) ==
    LET End(j) == /\ Kind(section[j]) = "dot"
                  /\ (j = Len(section) \/ Kind(section[j+1]) \notin AttachedKinds)
    IN IF \E j \in 1..Len(section) : End(j)
       THEN LET e == CHOOSE j \in 1..Len(section) :
                        End(j) /\ \A h \in 1..(j-1) : ~End(h)
            IN SubSeq(section, 1, e - 1)
       ELSE section

RECURSIVE AddNew(_, _)
\* `if item not in all_items: all_items.append(item)`
AddNew(all_items, items) ==
    IF items = << >> THEN all_items
    ELSE IF \E i \in 1..Len(all_items) : all_items[i] = Head(items)
         THEN AddNew(all_items, Tail(items))
         ELSE AddNew(Append(all_items, Head(items)), Tail(items))

RECURSIVE SectionItems(_, _, _, _, _)
\* the inner loop of _extract_section: every occurrence of one starter
\* pattern, left to right (finditer)
SectionItems(span, from, starter, family, all_items) ==
    IF from > Len(span) THEN all_items
    ELSE IF Kind(span[from]) = starter
         THEN LET end_pos == SectionEnd(span, from, family)
                  section == CutAtItemEnd(SubSeq(span, from + 1, end_pos - 1))
              IN SectionItems(span, from + 1, starter, family,
                              AddNew(all_items, SplitItems(section)))
         ELSE SectionItems(span, from + 1, starter, family, all_items)

RECURSIVE ExtractSection(_, _, _, _)
\* _extract_section: the starter patterns of the family from the p-th on,
\* in table order
ExtractSection(span, family, p, all_items) ==
    IF p > Len(StarterKinds(family)) THEN all_items
    ELSE ExtractSection(span, family, p + 1,
                        SectionItems(span, 1, StarterKinds(family)[p], family,
                                     all_items))

\* RequirementsExtractor.extract
RequirementsExtract(normalized_text, sentences) ==
    LET span == Vis(normalized_text)
        must_have_items == ExtractSection(span, "must", 1, << >>)
        nice_to_have_items == ExtractSection(span, "nice", 1, << >>)
    IN IF must_have_items = << >> /\ nice_to_have_items = << >> THEN << >>
       ELSE <<[ExtractResult("requirements", NONE, 90, << >>)
               EXCEPT !.must_have = must_have_items,
                      !.nice_to_have = nice_to_have_items]>>

\* -------------------------------------------- Platform, Stack, Forbidden
\* PlatformExtractor.extract: a contextual pattern ("on Linux") gives 0.95,
\* a PLATFORM_MAP keyword found by containment gives 0.85.
\* value: 1 Windows, 2 Linux, 3 macOS, 4 Cross-platform
PlatformExtract(normalized_text, sentences) ==
    LET span == Vis(normalized_text)
    IN IF FirstIdx(span, {"on_linux"}) > 0
       THEN <<ExtractResult("platform", 2, 95, <<span[FirstIdx(span, {"on_linux"})]>>)>>
       ELSE IF Has(span, "wsl")
       THEN <<ExtractResult("platform", 2, 85, <<span[FirstIdx(span, {"wsl"})]>>)>>
       ELSE << >>

\* StackExtractor.extract: the STACK_MAP keywords present ("Python")
StackExtract(normalized_text, sentences) ==
    LET span == Vis(normalized_text)
    IN IF Has(span, "python")
       THEN <<ExtractResult("stack", 1, 90, <<span[FirstIdx(span, {"python"})]>>)>>
       ELSE << >>

\* ForbiddenExtractor.extract: "LLM is forbidden" captures LLM
ForbiddenExtract(normalized_text, sentences) ==
    LET span == Vis(normalized_text)
    IN IF FirstIdx(span, {"llm_forbidden"}) > 0
       THEN <<ExtractResult("forbidden", 1, 90, <<span[FirstIdx(span, {"llm_forbidden"})]>>)>>
       ELSE << >>

\* ------------------------------------------------------------- unknowns
\* Unknown: id names the question text, a/b/c are the numbers and who the
\* extractor name formatted into it; evidence is the evidence string
Unknown(id, a, b, c, who, ev) ==
    [id |-> id, a |-> a, b |-> b, c |-> c, who |-> who, evidence |-> ev]

\* a fixed evidence string, as a one-token text
Lit(name) == <<Tk(name)>>

\* surfaces that start with a digit run / that contain a digit run (the
\* first number of every such surface is a)
DigitLeadKinds ==
    {"yr", "mo", "wk", "dy", "num", "range_en", "people", "myung", "pohaam"}
\* re.search(word + r'\s+(\d+)'): index of the leftmost token of one of the
\* kinds that is followed by a number, 0 when there is none
SearchWordNumber(span, kinds) ==
    LET M(i) == /\ Kind(span[i]) \in kinds
                /\ i < Len(span)
                /\ Kind(span[i+1]) \in DigitLeadKinds
    IN IF \E i \in 1..Len(span) : M(i)
       THEN CHOOSE i \in 1..Len(span) : M(i) /\ \A h \in 1..(i-1) : ~M(h)
       ELSE 0

\* re.search(r'(?:선호|이상적)[^\d]*(\d+)'): the first number after the
\* first 선호; 0 when there is none
SearchKoreanPreference(span) ==
    LET s == FirstIdx(span, {"seonho"})
        N(j) == j > s /\ Kind(span[j]) \in DigitLeadKinds \cup {"dplus", "range_ko", "range_of", "inwin", "team_of", "damdang"}
    IN IF s > 0 /\ \E j \in 1..Len(span) : N(j)
       THEN CHOOSE j \in 1..Len(span) : N(j) /\ \A h \in 1..(j-1) : ~N(h)
       ELSE 0

\* the preferred_value of _generate_team_range_question: the number of the
\* first pattern that matches, in the order ideally, prefer(red|s), Korean;
\* NONE when no pattern matches
PreferredValue(text) ==
    LET span == Vis(text)
        ideally_pattern == SearchWordNumber(span, {"ideally"})
        preferred_pattern == SearchWordNumber(span, {"preferred", "prefers"})
        korean_pattern == SearchKoreanPreference(span)
    IN IF ideally_pattern > 0 THEN NumA(span[ideally_pattern + 1])
       ELSE IF preferred_pattern > 0 THEN NumA(span[preferred_pattern + 1])
       ELSE IF korean_pattern > 0 THEN NumA(span[korean_pattern])
       ELSE NONE

\* has_preference
HasPreference(text) == \E kw \in {"ideally", "preferred", "best", "seonho", "ganeunghamyeon", "isangjeok"} : Has(text, kw)

\* _generate_team_range_question: the phrasing chosen and the number it names
GenerateTeamRangeQuestion(text, team_size_min, team_size_max) ==
    LET preferred_value == PreferredValue(text)
    IN IF preferred_value # NONE /\ preferred_value # 0
          /\ team_size_min <= preferred_value /\ preferred_value <= team_size_max
       THEN <<"team_range_specific", preferred_value>>
       ELSE IF HasPreference(text) THEN <<"team_range_loose", 0>>
       ELSE <<"team_range_neutral", 0>>

RECURSIVE LowConfidenceUnknowns(_)
\* one unknown per extraction with confidence < 0.7, in extraction order
LowConfidenceUnknowns(extractions) ==
    IF extractions = << >> THEN << >>
    ELSE (IF Head(extractions).confidence < 70
          THEN <<Unknown("low_confidence", 0, 0, 0, Head(extractions).extractor,
                         Head(extractions).evidence)>>
          ELSE << >>)
         \o LowConfidenceUnknowns(Tail(extractions))

\* the keyword-triggered unknowns of _generate_unknowns, in check order.
\* Romanised: "chujeok" 추적, "gamsa" 감사, "gwonhan" 권한,
\* "inteonet bulga" 인터넷 불가.
DomainUnknowns(text) ==
       (IF Has(text, "secs/gem") \/ Has(text, "secs gem") \/ Has(text, "secsgem")
        THEN <<Unknown("secs_gem", 0, 0, 0, "", Lit("ev_secs_gem"))>> ELSE << >>)
    \o (IF Has(text, "traceability") \/ Has(text, "chujeok")
        THEN <<Unknown("traceability", 0, 0, 0, "", Lit("ev_traceability"))>> ELSE << >>)
    \o (IF Has(text, "audit") \/ Has(text, "gamsa")
        THEN <<Unknown("audit", 0, 0, 0, "", Lit("ev_audit"))>> ELSE << >>)
    \o (IF Has(text, "role-based") \/ Has(text, "rbac") \/ Has(text, "gwonhan")
            \/ Has(text, "access control")
        THEN <<Unknown("rbac", 0, 0, 0, "", Lit("ev_rbac"))>> ELSE << >>)
    \o (IF Has(text, "no internet") \/ Has(text, "inteonet bulga")
            \/ Has(text, "inteonetbulga")
        THEN <<Unknown("no_internet", 0, 0, 0, "", Lit("ev_no_internet"))>> ELSE << >>)
    \o (IF Has(text, "compliance") \/ Has(text, "keompeullaieonseu")
        THEN <<Unknown("compliance", 0, 0, 0, "", Lit("ev_compliance"))>> ELSE << >>)
    \o (IF (Has(text, "security") \/ Has(text, "boan")) /\ ~Has(text, "compliance")
        THEN <<Unknown("security", 0, 0, 0, "", Lit("ev_security"))>> ELSE << >>)
    \o (IF Has(text, "wsl")
        THEN <<Unknown("wsl", 0, 0, 0, "", Lit("ev_wsl"))>> ELSE << >>)

\* block 1 left out: no deadline question is ever asked
DeadlineUnknowns_Never(deadline_days) == << >>

\* _generate_unknowns, block 1: the deadline question
DeadlineUnknowns(deadline_days) ==
    IF deadline_days = NONE
    THEN <<Unknown("deadline_missing", 0, 0, 0, "", Lit("ev_no_schedule"))>>
    ELSE << >>

\* the `if` over the range with `if` in place of `elif` for the missing size
TeamUnknowns_IfNotElif(text, team_size, team_size_min, team_size_max, team_range_evidence) ==
       (IF team_size_min # NONE /\ team_size_max # NONE
        THEN LET q == GenerateTeamRangeQuestion(text, team_size_min, team_size_max)
             IN <<Unknown(q[1], team_size_min, team_size_max, q[2], "",
                          team_range_evidence)>>
        ELSE << >>)
    \o (IF team_size = NONE
        THEN <<Unknown("team_missing", 0, 0, 0, "", Lit("ev_no_team"))>>
        ELSE << >>)

\* _generate_unknowns, block 2: the range confirmation, elif the missing size
TeamUnknowns(text, team_size, team_size_min, team_size_max, team_range_evidence) ==
    IF team_size_min # NONE /\ team_size_max # NONE
    THEN LET q == GenerateTeamRangeQuestion(text, team_size_min, team_size_max)
         IN <<Unknown(q[1], team_size_min, team_size_max, q[2], "",
                      team_range_evidence)>>
    ELSE IF team_size = NONE
    THEN <<Unknown("team_missing", 0, 0, 0, "", Lit("ev_no_team"))>>
    ELSE << >>

\* the keyword block moved in front of the low-confidence loop
GenerateUnknowns_DomainFirst(text, extractions, deadline_days, team_size, team_size_min, team_size_max, team_range_evidence) ==
       DeadlineUnknowns(deadline_days)
    \o TeamUnknowns(text, team_size, team_size_min, team_size_max,
                    team_range_evidence)
    \o DomainUnknowns(text)
    \o LowConfidenceUnknowns(extractions)

\* _generate_unknowns
GenerateUnknowns(text, extractions, deadline_days, team_size, team_size_min, team_size_max, team_range_evidence) ==
       DeadlineUnknowns(deadline_days)
    \o TeamUnknowns(text, team_size, team_size_min, team_size_max,
                    team_range_evidence)
    \o LowConfidenceUnknowns(extractions)
    \o DomainUnknowns(text)

\* ------------------------------------------- unknowns/generator.py
\* generator._generate_team_range_question: the phrasing chosen and the
\* number it names (the three regular expressions and the keyword list are
\* those of the observer's function, character for character)
GeneratorTeamRangeQuestion(text, team_size_min, team_size_max) ==
    LET preferred_value == PreferredValue(text)
        truthy == preferred_value # NONE /\ preferred_value # 0
        has_preference == \E kw \in {"ideally", "preferred", "best", "seonho",
                                      "ganeunghamyeon", "isangjeok"} : Has(text, kw)
    IN CASE truthy /\ team_size_min <= preferred_value
                   /\ preferred_value <= team_size_max ->
                <<"team_range_specific", preferred_value>>
         [] OTHER -> IF has_preference THEN <<"team_range_loose", 0>>
                     ELSE <<"team_range_neutral", 0>>

\* _add_keyword_based_unknowns with the security question also suppressed
\* by the Korean word for compliance
AddKeywordBasedUnknowns_KoreanSuppresses(text, unks) ==
    LET In(kw) == Has(text, kw)
        Ask(cond, id, ev) == IF cond THEN <<Unknown(id, 0, 0, 0, "", Lit(ev))>> ELSE << >>
        u1 == unks \o Ask(In("secs/gem") \/ In("secs gem") \/ In("secsgem"),
                          "secs_gem", "ev_secs_gem")
        u2 == u1 \o Ask(In("traceability") \/ In("chujeok"), "traceability", "ev_traceability")
        u3 == u2 \o Ask(In("audit") \/ In("gamsa"), "audit", "ev_audit")
        u4 == u3 \o Ask(In("role-based") \/ In("rbac") \/ In("gwonhan")
                            \/ In("access control"), "rbac", "ev_rbac")
        u5 == u4 \o Ask(In("no internet") \/ In("inteonet bulga") \/ In("inteonetbulga"),
                        "no_internet", "ev_no_internet")
        u6 == u5 \o Ask(In("compliance") \/ In("keompeullaieonseu"),
                        "compliance", "ev_compliance")
        u7 == u6 \o Ask((In("security") \/ In("boan"))
                            /\ ~In("compliance") /\ ~In("keompeullaieonseu"),
                        "security", "ev_security")
    IN u7 \o Ask(In("wsl"), "wsl", "ev_wsl")

\* generator._add_keyword_based_unknowns(text, unknowns): the list after
\* the appends, in the order of the tests
AddKeywordBasedUnknowns(text, unks) ==
    LET In(kw) == Has(text, kw)
        Ask(cond, id, ev) == IF cond THEN <<Unknown(id, 0, 0, 0, "", Lit(ev))>> ELSE << >>
        u1 == unks \o Ask(In("secs/gem") \/ In("secs gem") \/ In("secsgem"),
                          "secs_gem", "ev_secs_gem")
        u2 == u1 \o Ask(In("traceability") \/ In("chujeok"), "traceability", "ev_traceability")
        u3 == u2 \o Ask(In("audit") \/ In("gamsa"), "audit", "ev_audit")
        u4 == u3 \o Ask(In("role-based") \/ In("rbac") \/ In("gwonhan")
                            \/ In("access control"), "rbac", "ev_rbac")
        u5 == u4 \o Ask(In("no internet") \/ In("inteonet bulga") \/ In("inteonetbulga"),
                        "no_internet", "ev_no_internet")
        u6 == u5 \o Ask(In("compliance") \/ In("keompeullaieonseu"),
                        "compliance", "ev_compliance")
        u7 == u6 \o Ask((In("security") \/ In("boan")) /\ ~In("compliance"),
                        "security", "ev_security")
    IN u7 \o Ask(In("wsl"), "wsl", "ev_wsl")

\* generator.generate_unknowns
GeneratorGenerateUnknowns(text, extractions, deadline_days, team_size, team_size_min, team_size_max, team_range_evidence) ==
    LET u1 == IF deadline_days = NONE
              THEN <<Unknown("deadline_missing", 0, 0, 0, "", Lit("ev_no_schedule"))>>
              ELSE << >>
        question == GeneratorTeamRangeQuestion(text, team_size_min, team_size_max)
        u2 == IF team_size_min # NONE /\ team_size_max # NONE
              THEN Append(u1, Unknown(question[1], team_size_min, team_size_max,
                                      question[2], "", team_range_evidence))
              ELSE IF team_size = NONE
              THEN Append(u1, Unknown("team_missing", 0, 0, 0, "", Lit("ev_no_team")))
              ELSE u1
        low == SelectSeq(extractions, LAMBDA e : e.confidence < 70)
        u3 == u2 \o [k \in 1..Len(low) |->
                        Unknown("low_confidence", 0, 0, 0, low[k].extractor, low[k].evidence)]
    IN AddKeywordBasedUnknowns(text, u3)

\* ----------------------------------------------------------------- scorer
\* UNCERTAINTY_KEYWORDS.  Romanised: "ama" 아마, "geomto" 검토, "mijeong"
\* 미정, "hwagin piryo" 확인 필요, "nonui piryo" 논의 필요, "bulhwaksil"
\* 불확실, "moreu" 모르, "geulsse" 글쎄, "ajik" 아직, "yejeong" 예정,
\* "ganeungseong" 가능성, "byeondong" 변동, "yudongjeok" 유동적.
UNCERTAINTY_KEYWORDS ==
    {"maybe", "perhaps", "possibly", "might", "could be",
     "likely", "probably", "prefer", "preferred", "ideally",
     "within", "around", "approximately", "about",
     "flexible", "evolving", "changing",
     "tight", "scope change", "budget tight", "sooner", "if possible",
     "ama", "geomto", "mijeong", "tbd", "hwagin piryo", "nonui piryo",
     "bulhwaksil", "moreu", "geulsse", "ajik", "yejeong",
     "ganeungseong", "byeondong", "yudongjeok"}

\* compliance_signals_en / compliance_signals_ko.  Romanised: "opeurain"
\* 오프라인, "unyeong" 운영, "hyeonjang" 현장, "peurodeoksyeon" 프로덕션,
\* "geumji" 금지.
compliance_signals ==
    {"no internet", "offline", "security", "compliance", "production", "forbidden",
     "inteonet bulga", "inteonetbulga", "opeurain", "boan", "keompeullaieonseu",
     "unyeong", "hyeonjang", "peurodeoksyeon", "geumji"}

RECURSIVE KeywordScore(_, _)
\* the loop `for i in range(uncertainty_count)`, from index i
KeywordScore(i, uncertainty_count) ==
    IF i >= uncertainty_count THEN 0
    ELSE (IF i < 2 THEN 3 ELSE IF i < 4 THEN 4 ELSE 5)
         + KeywordScore(i + 1, uncertainty_count)

\* the weighted sum returned as it is, without the final clamp
ScoreOf_Unclamped(unknown_count, uncertainty_count, missing_critical, low_confidence_count, structured_count, has_compliance) ==
    LET s1 == Min(30, unknown_count * 15)
        s2 == s1 + Min(30, KeywordScore(0, uncertainty_count))
        s3 == s2 + missing_critical * 10
        s4 == s3 + Min(20, low_confidence_count * 10)
        s5 == IF structured_count >= 5 THEN s4 - 15 ELSE s4
        s6 == IF has_compliance THEN s5 + 5 ELSE s5
    IN s6

\* the keyword term added without min(30, ...)
ScoreOf_KeywordUncapped(unknown_count, uncertainty_count, missing_critical, low_confidence_count, structured_count, has_compliance) ==
    LET s1 == Min(30, unknown_count * 15)
        s2 == s1 + KeywordScore(0, uncertainty_count)
        s3 == s2 + missing_critical * 10
        s4 == s3 + Min(20, low_confidence_count * 10)
        s5 == IF structured_count >= 5 THEN s4 - 15 ELSE s4
        s6 == IF has_compliance THEN s5 + 5 ELSE s5
    IN Max(0, Min(100, s6))

\* the score without the `if structured_count >= 5: score -= 15`
ScoreOf_NoBonus(unknown_count, uncertainty_count, missing_critical, low_confidence_count, structured_count, has_compliance) ==
    LET s1 == Min(30, unknown_count * 15)
        s2 == s1 + Min(30, KeywordScore(0, uncertainty_count))
        s3 == s2 + missing_critical * 10
        s4 == s3 + Min(20, low_confidence_count * 10)
        s6 == IF has_compliance THEN s4 + 5 ELSE s4
    IN Max(0, Min(100, s6))

\* the arithmetic of _calculate_ambiguity_score on the counted signals
ScoreOf(unknown_count, uncertainty_count, missing_critical, low_confidence_count, structured_count, has_compliance) ==
    LET s1 == Min(30, unknown_count * 15)
        s2 == s1 + Min(30, KeywordScore(0, uncertainty_count))
        s3 == s2 + missing_critical * 10
        s4 == s3 + Min(20, low_confidence_count * 10)
        s5 == IF structured_count >= 5 THEN s4 - 15 ELSE s4
        s6 == IF has_compliance THEN s5 + 5 ELSE s5
    IN Max(0, Min(100, s6))

\* _calculate_ambiguity_score
CalculateAmbiguityScore(text, extractions, unknowns, must_have_count, nice_to_have_count) ==
    LET uncertainty_count == Cardinality({kw \in UNCERTAINTY_KEYWORDS : Has(text, kw)})
        extractor_names == {extractions[i].extractor : i \in 1..Len(extractions)}
        missing_critical == Cardinality({"deadline", "team_size"} \ extractor_names)
        low_confidence_count ==
            Cardinality({i \in 1..Len(extractions) : extractions[i].confidence < 70})
        has_compliance == \E sig \in compliance_signals : Has(text, sig)
    IN ScoreOf(Len(unknowns), uncertainty_count, missing_critical,
               low_confidence_count, must_have_count + nice_to_have_count,
               has_compliance)

\* _extract_requirements: the non-empty sentences
ExtractRequirements(sentences) == SelectSeq(sentences, LAMBDA s : Strip(s) # << >>)

\* ------------------------------------------------------------------ inputs
RECURSIVE SeqsUpTo(_, _)
\* all sequences over vocab of length 0..n
SeqsUpTo(vocab, n) ==
    IF n = 0 THEN {<< >>}
    ELSE LET shorter == SeqsUpTo(vocab, n - 1)
         IN shorter \cup {Append(s, t) : s \in {x \in shorter : Len(x) = n - 1}, t \in vocab}

M == MaxNum

DeadlineVocab ==
    {Tk1("yr", 1), Tk1("yr", 0), Tk1("mo", M), Tk1("wk", 1), Tk1("dy", M),
     Tk1("dplus", M), Tk1("dplus", 0), Tk("dot"), Tk("nl")}
RangeVocab ==
    {Tk2("range_ko", 1, M), Tk2("range_ko", M, 1), Tk2("range_en", 1, TEAM_MAX + 1),
     Tk2("range_en", M, TEAM_MAX), Tk2("range_of", 0, M), Tk2("range_of", 1, 1),
     Tk1("myung", M), Tk1("pohaam", 1), Tk("dot")}
SingleVocab ==
    {Tk1("inwin", M), Tk1("inwin", TEAM_MAX + 1), Tk1("team_of", 0),
     Tk1("team_of", TEAM_MAX), Tk1("people", 1), Tk1("myung", M),
     Tk1("damdang", 1), Tk1("pohaam", M), Tk("dot")}
PreferenceVocab ==
    {Tk2("range_ko", 1, M), Tk("ideally"), Tk("preferred"), Tk("prefers"),
     Tk("best"), Tk("seonho"), Tk1("num", M), Tk1("num", M + 1), Tk("dot")}
KeywordVocab ==
    {Tk("maybe"), Tk("tbd"), Tk("preferred"), Tk("security"), Tk("compliance"),
     Tk("keomp"), Tk("wsl"), Tk1("mo", 1), Tk1("team_of", M), Tk("ws")}
DomainVocab ==
    {Tk("wsl"), Tk("security"), Tk("compliance"), Tk("no_internet"), Tk("rbac"),
     Tk("audit"), Tk("traceability"), Tk("secsgem"), Tk1("mo", 1), Tk1("team_of", M)}
RequirementsVocab ==
    {Tk("must"), Tk("nice"), Tk1("item", 0), Tk1("item", 1), Tk("comma"),
     Tk("dot"), Tk("constraints"), Tk1("team_of", M), Tk("word")}

\* a clear, richly structured description: team, deadline, n listed items
Structured(n) ==
    <<Tk1("inwin", M), Tk1("mo", 1), Tk("dot"), Tk("must")>>
    \o [i \in 1..(2 * n - 1) |-> IF i % 2 = 1 THEN Tk1("item", (i - 1) \div 2)
                                  ELSE Tk("comma")]

\* the end-to-end scenario of the test suite, token by token
Fixtures ==
    {Structured(5), Structured(4),
     <<Tk1("yr", 1), Tk1("mo", 6)>>, <<Tk1("wk", 2)>>,
     <<Tk1("yr", 1), Tk("word"), Tk1("mo", 3)>>,
     <<Tk1("item", 0), Tk("dot"), Tk1("item", 1), Tk("dot"),
       Tk("nice"), Tk1("item", 2), Tk("comma"), Tk1("item", 3)>>,
     Structured(3) \o <<Tk("dot"), Tk("nice"), Tk1("item", 5), Tk("comma"), Tk1("item", 6)>>,
     <<Tk1("team_of", 4), Tk("dot"), Tk1("yr", 1), Tk1("mo", 3), Tk("dot"),
       Tk("must"), Tk1("item", 0), Tk("llm_forbidden"), Tk("dot"),
       Tk("nice"), Tk1("item", 1), Tk("dot"), Tk("on_linux"), Tk("wsl"), Tk("python")>>}

Inputs ==
    UNION {SeqsUpTo(v, MaxTok) :
             v \in {DeadlineVocab, RangeVocab, SingleVocab, PreferenceVocab,
                    KeywordVocab, DomainVocab, RequirementsVocab}}
    \cup Fixtures

\* ---------------------------------------------------------------- pipeline
VARIABLES
    pc,               \* position inside observe_v2
    user_input,       \* the argument of the call
    norm_result,      \* NormalizeResult
    extractions,      \* list[ExtractResult]
    fields,           \* the locals deadline_days .. forbidden
    unknowns,         \* list[Unknown]
    ambiguity_score,
    ran,              \* the components invoked by this call
    result,           \* Optional[ObservationResult]: << >> or <<record>>
    direct,           \* a direct call of a module function: << >> or <<record>>
    registry,         \* the module-level list EXTRACTORS
    history           \* the (input, result) pairs a client has kept

vars == <<pc, user_input, norm_result, extractions, fields, unknowns,
          ambiguity_score, ran, result, direct, registry, history>>

\* the registry EXTRACTORS, in order
EXTRACTORS ==
    <<"deadline", "team_size", "requirements", "platform", "stack", "forbidden">>

RunExtractor(name, normalized_text, sentences) ==
    CASE name = "deadline"     -> DeadlineExtract(normalized_text, sentences)
      [] name = "team_size"    -> TeamExtract(normalized_text, sentences)
      [] name = "requirements" -> RequirementsExtract(normalized_text, sentences)
      [] name = "platform"     -> PlatformExtract(normalized_text, sentences)
      [] name = "stack"        -> StackExtract(normalized_text, sentences)
      [] name = "forbidden"    -> ForbiddenExtract(normalized_text, sentences)

RECURSIVE RunExtractors(_, _, _)
\* _run_extractors: every extractor in registry order, the present results
RunExtractors(names, normalized_text, sentences) ==
    IF names = << >> THEN << >>
    ELSE RunExtractor(Head(names), normalized_text, sentences)
         \o RunExtractors(Tail(names), normalized_text, sentences)

\* the locals of observe_v2 before the loop over the extractions
EmptyFields ==
    [deadline_days |-> NONE, team_size |-> NONE,
     team_size_min |-> NONE, team_size_max |-> NONE,
     team_range_evidence |-> << >>,
     must_have |-> << >>, nice_to_have |-> << >>,
     platform |-> NONE, language_stack |-> << >>, forbidden |-> << >>]

\* the range branch also storing a single team_size
CollectOne_RangeAlsoSingle(e, f) ==
    CASE e.extractor = "deadline" -> [f EXCEPT !.deadline_days = e.value]
      [] e.extractor = "team_size" ->
           IF e.isRange
           THEN [f EXCEPT !.team_size = e.vmin,
                          !.team_size_min = e.vmin,
                          !.team_size_max = e.vmax,
                          !.team_range_evidence = e.evidence]
           ELSE [f EXCEPT !.team_size = e.value]
      [] e.extractor = "requirements" ->
           [f EXCEPT !.must_have = e.must_have, !.nice_to_have = e.nice_to_have]
      [] e.extractor = "platform" -> [f EXCEPT !.platform = e.value]
      [] e.extractor = "stack" -> [f EXCEPT !.language_stack = <<e.value>>]
      [] e.extractor = "forbidden" -> [f EXCEPT !.forbidden = <<e.value>>]
      [] OTHER -> f

\* the stack stored only when a platform has been stored before it
CollectOne_StackAfterPlatform(e, f) ==
    CASE e.extractor = "deadline" -> [f EXCEPT !.deadline_days = e.value]
      [] e.extractor = "team_size" ->
           IF e.isRange
           THEN [f EXCEPT !.team_size_min = e.vmin,
                          !.team_size_max = e.vmax,
                          !.team_range_evidence = e.evidence]
           ELSE [f EXCEPT !.team_size = e.value]
      [] e.extractor = "requirements" ->
           [f EXCEPT !.must_have = e.must_have, !.nice_to_have = e.nice_to_have]
      [] e.extractor = "platform" -> [f EXCEPT !.platform = e.value]
      [] e.extractor = "stack" ->
           IF f.platform # NONE THEN [f EXCEPT !.language_stack = <<e.value>>] ELSE f
      [] e.extractor = "forbidden" -> [f EXCEPT !.forbidden = <<e.value>>]
      [] OTHER -> f

\* the body of the loop `for extraction in extractions` of observe_v2
CollectOne(e, f) ==
    CASE e.extractor = "deadline" -> [f EXCEPT !.deadline_days = e.value]
      [] e.extractor = "team_size" ->
           IF e.isRange
           THEN [f EXCEPT !.team_size_min = e.vmin,
                          !.team_size_max = e.vmax,
                          !.team_range_evidence = e.evidence]
           ELSE [f EXCEPT !.team_size = e.value]
      [] e.extractor = "requirements" ->
           [f EXCEPT !.must_have = e.must_have, !.nice_to_have = e.nice_to_have]
      [] e.extractor = "platform" -> [f EXCEPT !.platform = e.value]
      [] e.extractor = "stack" -> [f EXCEPT !.language_stack = <<e.value>>]
      [] e.extractor = "forbidden" -> [f EXCEPT !.forbidden = <<e.value>>]
      [] OTHER -> f

RECURSIVE Collect(_, _)
\* the loop `for extraction in extractions` of observe_v2
Collect(exs, f) ==
    IF exs = << >> THEN f
    ELSE Collect(Tail(exs), CollectOne(Head(exs), f))

\* ObservationResult(...)
ObservationResult(raw, f, score, unks, exs) ==
    [raw_input |-> raw,
     deadline_days |-> f.deadline_days, team_size |-> f.team_size,
     team_size_min |-> f.team_size_min, team_size_max |-> f.team_size_max,
     must_have |-> f.must_have, nice_to_have |-> f.nice_to_have,
     platform |-> f.platform, language_stack |-> f.language_stack,
     forbidden |-> f.forbidden,
     ambiguity_score |-> score, unknowns |-> unks, extractions |-> exs]

NoNorm == [normalized |-> << >>, sentences |-> << >>]

\* observe_v2 as one function of the registry and the input
ObserveV2(names, text) ==
    IF IsBlank(text)
    THEN ObservationResult(text, EmptyFields, 0,
                           <<Unknown("empty_input", 0, 0, 0, "", << >>)>>, << >>)
    ELSE LET norm == Normalize(text)
             exs == RunExtractors(names, norm.normalized, norm.sentences)
             f == Collect(exs, EmptyFields)
             unks == GenerateUnknowns(text, exs, f.deadline_days, f.team_size,
                                      f.team_size_min, f.team_size_max,
                                      f.team_range_evidence)
             score == CalculateAmbiguityScore(text, exs, unks, Len(f.must_have),
                                              Len(f.nice_to_have))
             must_have == IF f.must_have = << >>
                          THEN ExtractRequirements(norm.sentences)
                          ELSE f.must_have
         IN ObservationResult(text, [f EXCEPT !.must_have = must_have], score,
                              unks, exs)

Init ==
    /\ pc = "idle"
    /\ user_input = << >>
    /\ norm_result = NoNorm
    /\ extractions = << >>
    /\ fields = EmptyFields
    /\ unknowns = << >>
    /\ ambiguity_score = 0
    /\ ran = {}
    /\ result = << >>
    /\ direct = << >>
    /\ registry = EXTRACTORS
    /\ history = << >>

\* observe_v2(text) is called; every local is fresh
Call(text) ==
    /\ pc = "idle"
    /\ direct = << >>
    /\ pc' = "entered"
    /\ user_input' = text
    /\ norm_result' = NoNorm
    /\ extractions' = << >>
    /\ fields' = EmptyFields
    /\ unknowns' = << >>
    /\ ambiguity_score' = 0
    /\ ran' = {}
    /\ result' = << >>
    /\ UNCHANGED <<direct, registry, history>>

\* the empty-input branch: return at once with the one fixed unknown
ReturnEmpty ==
    /\ pc = "entered"
    /\ IsBlank(user_input)
    /\ result' = <<ObservationResult(user_input, EmptyFields, 0,
                      <<Unknown("empty_input", 0, 0, 0, "", << >>)>>, << >>)>>
    /\ pc' = "done"
    /\ UNCHANGED <<user_input, norm_result, extractions, fields, unknowns,
                   ambiguity_score, ran, direct, registry, history>>

\* 1-2. norm_result = normalize(user_input); sentences = norm_result.sentences
DoNormalize ==
    /\ pc = "entered"
    /\ ~IsBlank(user_input)
    /\ norm_result' = Normalize(user_input)
    /\ ran' = ran \cup {"normalize"}
    /\ pc' = "extract"
    /\ UNCHANGED <<user_input, extractions, fields, unknowns, ambiguity_score, result, direct, registry, history>>

\* the loop of _run_extractors taking each extractor off the module-level
\* list as it runs it (`while EXTRACTORS: EXTRACTORS.pop(0)`)
DoExtract_DrainsRegistry ==
    /\ pc = "extract"
    /\ extractions' = RunExtractors(registry, norm_result.normalized,
                                    norm_result.sentences)
    /\ ran' = ran \cup {registry[i] : i \in 1..Len(registry)}
    /\ registry' = << >>
    /\ pc' = "collect"
    /\ UNCHANGED <<user_input, norm_result, fields, unknowns, ambiguity_score, result, direct, history>>

\* 3. extractions = _run_extractors(norm_result.normalized, sentences): the
\* loop reads the module-level list EXTRACTORS and leaves it as it is
DoExtract ==
    /\ pc = "extract"
    /\ extractions' = RunExtractors(registry, norm_result.normalized,
                                    norm_result.sentences)
    /\ ran' = ran \cup {registry[i] : i \in 1..Len(registry)}
    /\ pc' = "collect"
    /\ UNCHANGED <<user_input, norm_result, fields, unknowns, ambiguity_score, result, direct, registry, history>>

\* the loop that copies the extraction values into the locals
DoCollect ==
    /\ pc = "collect"
    /\ fields' = Collect(extractions, EmptyFields)
    /\ pc' = "validate"
    /\ UNCHANGED <<user_input, norm_result, extractions, unknowns,
                   ambiguity_score, ran, result, direct, registry, history>>

\* 4. unknowns = _generate_unknowns(user_input, ...)
DoValidate ==
    /\ pc = "validate"
    /\ unknowns' = GenerateUnknowns(user_input, extractions, fields.deadline_days,
                        fields.team_size, fields.team_size_min,
                        fields.team_size_max, fields.team_range_evidence)
    /\ pc' = "quantify"
    /\ UNCHANGED <<user_input, norm_result, extractions, fields,
                   ambiguity_score, ran, result, direct, registry, history>>

\* the score computed from the must_have list after the sentence fallback
DoQuantify_AfterFallback ==
    /\ pc = "quantify"
    /\ LET must_have == IF fields.must_have = << >>
                        THEN ExtractRequirements(norm_result.sentences)
                        ELSE fields.must_have
       IN ambiguity_score' = CalculateAmbiguityScore(user_input, extractions, unknowns,
                                 Len(must_have), Len(fields.nice_to_have))
    /\ pc' = "fallback"
    /\ UNCHANGED <<user_input, norm_result, extractions, fields, unknowns, ran, result, direct, registry, history>>

\* 5. ambiguity_score = _calculate_ambiguity_score(...), counts before fallback
DoQuantify ==
    /\ pc = "quantify"
    /\ ambiguity_score' = CalculateAmbiguityScore(user_input, extractions, unknowns,
                              Len(fields.must_have), Len(fields.nice_to_have))
    /\ pc' = "fallback"
    /\ UNCHANGED <<user_input, norm_result, extractions, fields, unknowns, ran, result, direct, registry, history>>

\* the return with the fallback applied only when nothing at all was listed
DoReturn_NoFallbackWhenNice ==
    /\ pc = "fallback"
    /\ LET must_have == IF fields.must_have = << >> /\ fields.nice_to_have = << >>
                        THEN ExtractRequirements(norm_result.sentences)
                        ELSE fields.must_have
       IN /\ fields' = [fields EXCEPT !.must_have = must_have]
          /\ result' = <<ObservationResult(user_input,
                            [fields EXCEPT !.must_have = must_have],
                            ambiguity_score, unknowns, extractions)>>
    /\ pc' = "done"
    /\ UNCHANGED <<user_input, norm_result, extractions, unknowns,
                   ambiguity_score, ran, direct, registry, history>>

\* the sentence fallback for must_have, and the return
DoReturn ==
    /\ pc = "fallback"
    /\ LET must_have == IF fields.must_have = << >>
                        THEN ExtractRequirements(norm_result.sentences)
                        ELSE fields.must_have
       IN /\ fields' = [fields EXCEPT !.must_have = must_have]
          /\ result' = <<ObservationResult(user_input,
                            [fields EXCEPT !.must_have = must_have],
                            ambiguity_score, unknowns, extractions)>>
    /\ pc' = "done"
    /\ UNCHANGED <<user_input, norm_result, extractions, unknowns,
                   ambiguity_score, ran, direct, registry, history>>

\* the caller has consumed the result; nothing of the call is kept
Discard ==
    /\ pc = "done"
    /\ pc' = "idle"
    /\ user_input' = << >>
    /\ norm_result' = NoNorm
    /\ extractions' = << >>
    /\ fields' = EmptyFields
    /\ unknowns' = << >>
    /\ ambiguity_score' = 0
    /\ ran' = {}
    /\ result' = << >>
    /\ UNCHANGED <<direct, registry, history>>

Next ==
    \/ pc = "idle" /\ direct = << >> /\ \E text \in Inputs : Call(text)
    \/ ReturnEmpty
    \/ DoNormalize
    \/ DoExtract
    \/ DoCollect
    \/ DoValidate
    \/ DoQuantify
    \/ DoReturn
    \/ Discard

Spec == Init /\ [][Next]_vars

\* ---------------------------------------------------------- repeated calls
\* the number of results a client keeps
MaxCalls == 3

\* the caller keeps the input and the returned result; nothing else of the
\* call survives
Keep ==
    /\ pc = "done"
    /\ Len(history) < MaxCalls
    /\ history' = Append(history, [input |-> user_input, result |-> result[1]])
    /\ pc' = "idle"
    /\ user_input' = << >>
    /\ norm_result' = NoNorm
    /\ extractions' = << >>
    /\ fields' = EmptyFields
    /\ unknowns' = << >>
    /\ ambiguity_score' = 0
    /\ ran' = {}
    /\ result' = << >>
    /\ UNCHANGED <<direct, registry>>

NextRepeat ==
    \/ pc = "idle" /\ direct = << >> /\
       \E text \in {<< >>, <<Tk("ws")>>, <<Tk1("mo", 1)>>,
                    <<Tk1("team_of", M), Tk("maybe")>>,
                    <<Tk2("range_ko", 1, M), Tk("seonho"), Tk1("num", M)>>,
                    <<Tk("security"), Tk("on_linux"), Tk("python")>>,
                    Structured(5)} : Call(text)
    \/ ReturnEmpty
    \/ DoNormalize
    \/ DoExtract
    \/ DoCollect
    \/ DoValidate
    \/ DoQuantify
    \/ DoReturn
    \/ Keep
    \/ Discard

\* a client that calls observe_v2 several times and keeps the results
SpecRepeat == Init /\ [][NextRepeat]_vars

\* the module loaded with the registry written in some order
InitPermuted ==
    /\ pc = "idle"
    /\ user_input = << >>
    /\ norm_result = NoNorm
    /\ extractions = << >>
    /\ fields = EmptyFields
    /\ unknowns = << >>
    /\ ambiguity_score = 0
    /\ ran = {}
    /\ result = << >>
    /\ direct = << >>
    /\ registry \in [1..Len(EXTRACTORS) -> {EXTRACTORS[i] : i \in 1..Len(EXTRACTORS)}]
    /\ \A i, j \in 1..Len(EXTRACTORS) : i # j => registry[i] # registry[j]
    /\ history = << >>

NextPermuted ==
    \/ pc = "idle" /\ direct = << >> /\
       \E text \in {<< >>, <<Tk1("mo", 1), Tk("on_linux"), Tk("python")>>,
                    <<Tk2("range_ko", 1, M), Tk("dot"), Tk1("wk", 1), Tk("llm_forbidden")>>}
                   \cup Fixtures : Call(text)
    \/ ReturnEmpty
    \/ DoNormalize
    \/ DoExtract
    \/ DoCollect
    \/ DoValidate
    \/ DoQuantify
    \/ DoReturn
    \/ Discard

SpecPermuted == InitPermuted /\ [][NextPermuted]_vars

\* ----------------------------------------------------------- legacy observe
\* A constraint string, by its tag and the values printed in it; NONE for a
\* part that is not printed.  Romanised tags: "inryeok" [인력], "iljeong"
\* [일정], "peullaetpom" [플랫폼], "seutaek" [스택], "geumji" [금지],
\* "unyeongjeyak" [운영제약], "yesan" [예산].
Constraint(tag, a, b, c, d, items) ==
    [tag |-> tag, a |-> a, b |-> b, c |-> c, d |-> d, items |-> items]

\* the [인력] line of observe: the size, else the range "(확정 필요)"
ObserveTeamConstraint(r) ==
    IF r.team_size # NONE
    THEN <<Constraint("inryeok", r.team_size, NONE, NONE, NONE, << >>)>>
    ELSE IF r.team_size_min # NONE /\ r.team_size_max # NONE
    THEN <<Constraint("inryeok", NONE, r.team_size_min, r.team_size_max,
                      NONE, << >>)>>
    ELSE << >>

\* the [일정] line of observe: a = years (년), b = months (개월), c = weeks
\* (주), d = days (일)
ObserveScheduleConstraint(deadline_days) ==
    IF deadline_days = NONE THEN << >>
    ELSE LET days == deadline_days
         IN IF days >= 365
            THEN LET years == days \div 365
                     months == (days % 365) \div 30
                 IN IF months > 0
                    THEN <<Constraint("iljeong", years, months, NONE, NONE, << >>)>>
                    ELSE <<Constraint("iljeong", years, NONE, NONE, NONE, << >>)>>
            ELSE IF days >= 30
            THEN <<Constraint("iljeong", NONE, days \div 30, NONE, NONE, << >>)>>
            ELSE IF days >= 7
            THEN <<Constraint("iljeong", NONE, NONE, days \div 7, NONE, << >>)>>
            ELSE <<Constraint("iljeong", NONE, NONE, NONE, days, << >>)>>

\* the platform, stack and forbidden lines
ObserveExtractedConstraints(r) ==
       (IF r.platform # NONE
        THEN <<Constraint("peullaetpom", r.platform, NONE, NONE, NONE, << >>)>>
        ELSE << >>)
    \o (IF r.language_stack # << >>
        THEN <<Constraint("seutaek", NONE, NONE, NONE, NONE, r.language_stack)>>
        ELSE << >>)
    \o (IF r.forbidden # << >>
        THEN <<Constraint("geumji", NONE, NONE, NONE, NONE, r.forbidden)>>
        ELSE << >>)

\* the operational signals read from the raw text.  Romanised: "opeurain"
\* 오프라인, "opeurain eopdeiteu" 오프라인 업데이트.
OperationalConstraints(text) ==
    LET wsl == IF Has(text, "wsl") \/ Has(text, "wsl2") THEN <<"wsl2_dev">> ELSE << >>
        net == IF Has(text, "no internet") \/ Has(text, "inteonet bulga")
                  \/ Has(text, "inteonetbulga")
               THEN <<"no_internet">> ELSE << >>
        off == IF Has(text, "offline") \/ Has(text, "opeurain")
               THEN IF Has(text, "offline update") \/ Has(text, "opeurain eopdeiteu")
                    THEN <<"offline_update_only">>
                    ELSE IF net = << >> THEN <<"offline_env">> ELSE << >>
               ELSE << >>
        sec == IF Has(text, "security") \/ Has(text, "boan")
               THEN <<"security_policy">> ELSE << >>
        cmp == IF Has(text, "compliance") \/ Has(text, "keompeullaieonseu")
               THEN <<"compliance_required">> ELSE << >>
        operational_constraints == wsl \o net \o off \o sec \o cmp
    IN IF operational_constraints # << >>
       THEN <<Constraint("unyeongjeyak", NONE, NONE, NONE, NONE, operational_constraints)>>
       ELSE << >>

\* observe(user_input): the legacy entry point, given the result r that its
\* call of observe_v2(user_input) returned.  It returns an Observation, the
\* legacy dataclass, which has these four fields and no other.
Observe(r) ==
    [raw_input |-> r.raw_input,
     requirements |-> r.must_have,
     constraints |->
         ObserveTeamConstraint(r) \o ObserveScheduleConstraint(r.deadline_days)
         \o ObserveExtractedConstraints(r) \o OperationalConstraints(r.raw_input),
     unknowns |-> [i \in 1..Len(r.unknowns) |-> [mihwagin |-> r.unknowns[i]]]]

\* ----------------------------------------------------------------- reasoner
\* a value that stands for a raised exception (an AttributeError carries the
\* attribute the object does not have)
IsRaised(v) == "raised" \in DOMAIN v

\* _detect_ambiguity_level
DetectAmbiguityLevel(text, r) ==
    LET uncertainty_count ==
            Cardinality({kw \in {"maybe", "perhaps", "possibly", "might", "could be", "ama", "geomto", "mijeong", "tbd", "hwagin piryo", "nonui piryo", "bulhwaksil", "moreu", "geulsse", "ajik", "yejeong"} : Has(text, kw)})
    IN IF Len(r.unknowns) >= 3 THEN "HIGH"
       ELSE IF uncertainty_count >= 3 THEN "HIGH"
       ELSE IF uncertainty_count >= 1 THEN "MEDIUM"
       ELSE "LOW"

\* _detect_scope_volatility
DetectScopeVolatility(text) == \E kw \in {"evolving", "scope change", "flexible", "byeondong", "byeongyeong ganeung", "yudongjeok", "bakkwil su", "jojeong ganeung", "chuhu gyeoljeong"} : Has(text, kw)

\* _detect_team_uncertainty with the first test alone: a missing team_size
\* does not count as uncertain
DetectTeamUncertainty_RangeOnly(r) ==
    r.team_size_min # NONE /\ r.team_size_max # NONE

\* _detect_team_uncertainty
DetectTeamUncertainty(r) ==
    IF r.team_size_min # NONE /\ r.team_size_max # NONE THEN TRUE
    ELSE IF r.team_size = NONE THEN TRUE
    ELSE FALSE

\* _build_constraints: the same lines as the legacy observe builds
BuildConstraints(r) ==
    ObserveTeamConstraint(r) \o ObserveScheduleConstraint(r.deadline_days)
    \o ObserveExtractedConstraints(r) \o OperationalConstraints(r.raw_input)

\* BudgetConstraintRule.applies
BudgetApplies(text) == \E kw \in {"tight budget", "limited budget", "budget constraint", "yesan jeyak", "yesan bujok", "biyong jeolgam", "jeoyesan", "tight"} : Has(text, kw)

\* the attributes reason() reads from its argument, in the order of the
\* first read (team_size is read by _build_constraints before any other
\* extracted field)
ReasonReads ==
    <<"raw_input", "unknowns", "team_size", "team_size_min", "team_size_max",
      "deadline_days", "platform", "language_stack", "forbidden", "must_have",
      "extractions">>

\* the first attribute of `reads` the object lacks, "" when it has all
FirstMissing(obj, reads) ==
    LET Missing(i) == reads[i] \notin DOMAIN obj
    IN IF \E i \in 1..Len(reads) : Missing(i)
       THEN reads[CHOOSE i \in 1..Len(reads) : Missing(i) /\ \A h \in 1..(i - 1) : ~Missing(h)]
       ELSE ""

\* the pros of reason(), in order
ReasonPros(r, ambiguity_level) ==
       (IF r.must_have # << >>
        THEN IF ambiguity_level = "LOW" THEN <<"requirements_clear">>
             ELSE IF ambiguity_level = "MEDIUM" THEN <<"requirements_basic">>
             ELSE << >>
        ELSE << >>)
    \o (IF ~DetectTeamUncertainty(r) /\ r.team_size # NONE
        THEN <<"team_confirmed">> ELSE << >>)
    \o (IF r.deadline_days # NONE THEN <<"deadline_stated">> ELSE << >>)

\* the cons of reason(), in order; the budget rule runs before the team line
ReasonCons(r, ambiguity_level) ==
    LET text == r.raw_input
        listed ==
               (IF ambiguity_level = "HIGH"
                THEN <<"high_rework_risk", "high_scope_creep">> ELSE << >>)
            \o (IF DetectScopeVolatility(text)
                THEN <<"volatile_architecture", "volatile_margin">> ELSE << >>)
            \o (IF BudgetApplies(text)
                THEN <<"budget_scope", "budget_cost">> ELSE << >>)
            \o (IF DetectTeamUncertainty(r) THEN <<"team_unconfirmed">> ELSE << >>)
            \o (IF r.unknowns # << >> /\ ambiguity_level # "HIGH"
                THEN <<"unknowns_present">> ELSE << >>)
    IN IF listed = << >> THEN <<"no_context">> ELSE listed

\* the assumptions of reason(), in order
ReasonAssumptions(r, ambiguity_level) ==
    LET IsLow(e) == e.confidence < 70
        low_confidence_extractions == SelectSeq(r.extractions, IsLow)
    IN (IF ambiguity_level = "LOW" THEN <<[id |-> "sufficient", names |-> << >>]>>
        ELSE IF ambiguity_level = "MEDIUM"
        THEN <<[id |-> "unknowns_later", names |-> << >>]>>
        ELSE <<[id |-> "redo_when_concrete", names |-> << >>],
               [id |-> "tentative", names |-> << >>]>>)
    \o (IF DetectScopeVolatility(r.raw_input)
        THEN <<[id |-> "flexibility", names |-> << >>]>> ELSE << >>)
    \o (IF low_confidence_extractions # << >>
        THEN <<[id |-> "low_confidence_warning",
                names |-> [i \in 1..Len(low_confidence_extractions) |->
                              low_confidence_extractions[i].extractor]]>>
        ELSE << >>)

\* the constraints of reason(): the built ones, the budget tag when the rule
\* applies and no line mentions 예산 yet, and the filler when there is none
ReasonConstraints(r) ==
    LET built == BuildConstraints(r)
        budget == IF BudgetApplies(r.raw_input)
                     /\ ~\E i \in 1..Len(built) : built[i].tag = "yesan"
                  THEN <<Constraint("yesan", NONE, NONE, NONE, NONE, << >>)>>
                  ELSE << >>
    IN IF built \o budget = << >>
       THEN <<Constraint("none_stated", NONE, NONE, NONE, NONE, << >>)>>
       ELSE built \o budget

\* reason(result): the Analysis, or the exception of the first attribute
\* the argument lacks
Reason(r) ==
    IF FirstMissing(r, ReasonReads) # "" THEN [raised |-> "AttributeError", attr |-> FirstMissing(r, ReasonReads)]
    ELSE LET ambiguity_level == DetectAmbiguityLevel(r.raw_input, r)
         IN [pros |-> ReasonPros(r, ambiguity_level),
             cons |-> ReasonCons(r, ambiguity_level),
             assumptions |-> ReasonAssumptions(r, ambiguity_level),
             constraints |-> ReasonConstraints(r)]

\* ----------------------------------------------------------------- proposer
\* the attributes propose() reads from obs, in order
ProposeReads == <<"extractions", "ambiguity_score", "unknowns">>

\* propose() with the first recommendation only above 50
Propose_Above50(obs, analysis) ==
    IF FirstMissing(obs, ProposeReads) # ""
    THEN [raised |-> "AttributeError", attr |-> FirstMissing(obs, ProposeReads)]
    ELSE LET has_explicit_requirements ==
                 \E i \in 1..Len(obs.extractions) :
                    obs.extractions[i].extractor = "requirements"
             recommendation ==
                 IF obs.ambiguity_score > 50 THEN "clarify_unknowns"
                 ELSE IF ~has_explicit_requirements THEN "define_must_have"
                 ELSE "start_architecture"
             has_budget == \E i \in 1..Len(analysis.cons) : analysis.cons[i] = "budget_scope"
             next_considerations ==
                    (IF obs.unknowns # << >> THEN <<"answer_unknowns">> ELSE << >>)
                 \o (IF has_budget THEN <<"open_source_or_managed">> ELSE << >>)
                 \o <<"review_with_team", "proof_of_concept">>
         IN [recommendation |-> recommendation,
             reasoning |-> [pros |-> SubSeq(analysis.pros, 1, Min(2, Len(analysis.pros))),
                           cons |-> SubSeq(analysis.cons, 1, Min(2, Len(analysis.cons)))],
             human_decision_note |-> "HUMAN_DECISION_STATEMENT",
             next_considerations |-> SubSeq(next_considerations, 1,
                                            Min(3, Len(next_considerations)))]

\* propose(obs, analysis): the Proposal, or the exception of the first
\* attribute obs lacks
Propose(obs, analysis) ==
    IF FirstMissing(obs, ProposeReads) # ""
    THEN [raised |-> "AttributeError", attr |-> FirstMissing(obs, ProposeReads)]
    ELSE LET has_explicit_requirements ==
                 \E i \in 1..Len(obs.extractions) :
                    obs.extractions[i].extractor = "requirements"
             recommendation ==
                 IF obs.ambiguity_score >= 50 THEN "clarify_unknowns"
                 ELSE IF ~has_explicit_requirements THEN "define_must_have"
                 ELSE "start_architecture"
             has_budget == \E i \in 1..Len(analysis.cons) : analysis.cons[i] = "budget_scope"
             next_considerations ==
                    (IF obs.unknowns # << >> THEN <<"answer_unknowns">> ELSE << >>)
                 \o (IF has_budget THEN <<"open_source_or_managed">> ELSE << >>)
                 \o <<"review_with_team", "proof_of_concept">>
         IN [recommendation |-> recommendation,
             reasoning |-> [pros |-> SubSeq(analysis.pros, 1, Min(2, Len(analysis.pros))),
                           cons |-> SubSeq(analysis.cons, 1, Min(2, Len(analysis.cons)))],
             human_decision_note |-> "HUMAN_DECISION_STATEMENT",
             next_considerations |-> SubSeq(next_considerations, 1,
                                            Min(3, Len(next_considerations)))]

\* --------------------------------------------------------------------- main
\* main(): what the run on the text read from stdin ends with, r being what
\* observe_v2 returns for that text (main calls it, and observe calls it
\* again, only when the text is not blank).  The report of format_output_v2
\* is given by the three values it is printed from.
Main(r) ==
    IF IsBlank(r.raw_input) THEN [outcome |-> "no_input"]
    ELSE LET observation == Observe(r)
             analysis == Reason(observation)
         IN IF IsRaised(analysis)
            THEN [outcome |-> "exception", stage |-> "reason", error |-> analysis]
            ELSE LET proposal == Propose(observation, analysis)
                 IN IF IsRaised(proposal)
                    THEN [outcome |-> "exception", stage |-> "propose", error |-> proposal]
                    ELSE [outcome |-> "printed",
                          output |-> [result |-> r, analysis |-> analysis,
                                      proposal |-> proposal]]

\* ------------------------------------------------------------ direct calls
\* arguments of a direct call of _calculate_ambiguity_score
MaxHits == 8

\* a text with exactly n distinct uncertainty keywords
UncText(n) == [i \in 1..n |-> Tk1("unc", i - 1)]

ScoreTexts ==
    {UncText(n) \o tail : n \in 0..MaxHits,
                          tail \in {<< >>, <<Tk("security")>>, <<Tk1("unc", 0)>>}}

\* _calculate_ambiguity_score(text, extractions, unknowns, must_have_count,
\* nice_to_have_count) called on its own
CallCalculateAmbiguityScore(text, exs, unks, must_have_count, nice_to_have_count) ==
    /\ pc = "idle"
    /\ direct = << >>
    /\ direct' = <<[fn |-> "_calculate_ambiguity_score",
                    text |-> text, extractions |-> exs, unknowns |-> unks,
                    must_have_count |-> must_have_count,
                    nice_to_have_count |-> nice_to_have_count,
                    ret |-> CalculateAmbiguityScore(text, exs, unks, must_have_count,
                                                    nice_to_have_count)]>>
    /\ UNCHANGED <<pc, user_input, norm_result, extractions, fields, unknowns,
                   ambiguity_score, ran, result, registry, history>>

\* _generate_unknowns(text, extractions, deadline_days, team_size,
\* team_size_min, team_size_max) called on its own
CallGenerateUnknowns(text, exs, deadline_days, team) ==
    /\ pc = "idle"
    /\ direct = << >>
    /\ direct' = <<[fn |-> "_generate_unknowns", text |-> text, extractions |-> exs,
                    deadline_days |-> deadline_days, team_size |-> team[1],
                    team_size_min |-> team[2], team_size_max |-> team[3],
                    ret |-> GenerateUnknowns(text, exs, deadline_days, team[1],
                                             team[2], team[3], << >>)]>>
    /\ UNCHANGED <<pc, user_input, norm_result, extractions, fields, unknowns,
                   ambiguity_score, ran, result, registry, history>>

\* generate_unknowns(text, extractions, deadline_days, team_size,
\* team_size_min, team_size_max, team_range_evidence) of
\* unknowns/generator.py called on its own
CallGeneratorGenerateUnknowns(text, exs, deadline_days, team, team_range_evidence) ==
    /\ pc = "idle"
    /\ direct = << >>
    /\ direct' = <<[fn |-> "generate_unknowns", text |-> text, extractions |-> exs,
                    deadline_days |-> deadline_days, team_size |-> team[1],
                    team_size_min |-> team[2], team_size_max |-> team[3],
                    team_range_evidence |-> team_range_evidence,
                    ret |-> GeneratorGenerateUnknowns(text, exs, deadline_days, team[1],
                                team[2], team[3], team_range_evidence)]>>
    /\ UNCHANGED <<pc, user_input, norm_result, extractions, fields, unknowns,
                   ambiguity_score, ran, result, registry, history>>

\* DeadlineExtractor._extract_from_sentence(text) called on its own
CallExtractFromSentence(text) ==
    /\ pc = "idle"
    /\ direct = << >>
    /\ direct' = <<[fn |-> "_extract_from_sentence", text |-> text,
                    ret |-> ExtractFromSentence(text)]>>
    /\ UNCHANGED <<pc, user_input, norm_result, extractions, fields, unknowns,
                   ambiguity_score, ran, result, registry, history>>

\* the largest number of sections of a text handed to _extract_section
MaxSections == 3

RECURSIVE SectionTexts(_)
\* texts of up to n sections, each a starter of either family followed by
\* no item, two items, or an item and a full stop
SectionTexts(n) ==
    IF n = 0 THEN {<< >>}
    ELSE LET shorter == SectionTexts(n - 1)
         IN shorter \cup
            {s \o <<Tk(k)>> \o items :
               s \in {x \in shorter : Len(x) >= n - 1},
               k \in {"must", "core", "nice", "optional"},
               items \in {<< >>, <<Tk1("item", 1), Tk("dot")>>,
                          <<Tk1("item", 0), Tk("comma"), Tk1("item", 1)>>}}

\* RequirementsExtractor._extract_section(text, starters, exclude_starters)
\* called on its own with the starters of one family
CallExtractSection(text, family) ==
    /\ pc = "idle"
    /\ direct = << >>
    /\ direct' = <<[fn |-> "_extract_section", text |-> text, family |-> family,
                    ret |-> ExtractSection(Vis(text), family, 1, << >>)]>>
    /\ UNCHANGED <<pc, user_input, norm_result, extractions, fields, unknowns,
                   ambiguity_score, ran, result, registry, history>>

\* ------------------------------------------ ForbiddenExtractor, by words
\* The patterns of ForbiddenExtractor work on single words: here a text is
\* a sequence of words, written as they stand in the input and separated by
\* one blank.

\* the longest text handed to ForbiddenExtractor.extract, in words
MaxWords == 4

\* FORBIDDEN_PATTERNS, in table order: the words a match has before and
\* after the captured word (\w+).  These are the patterns 2, 3, 4, 6, 7, 8,
\* 10 and 11 of the table; the others need "(", "금지", "불가" or "don't",
\* which no text enumerated here holds.
FORBIDDEN_PATTERNS ==
    <<[pre |-> << >>, post |-> <<"usage", "is", "forbidden">>],
      [pre |-> << >>, post |-> <<"is", "forbidden">>],
      [pre |-> << >>, post |-> <<"forbidden">>],
      [pre |-> << >>, post |-> <<"usage", "is", "not", "allowed">>],
      [pre |-> << >>, post |-> <<"is", "not", "allowed">>],
      [pre |-> << >>, post |-> <<"not", "allowed">>],
      [pre |-> <<"without">>, post |-> << >>],
      [pre |-> << >>, post |-> <<"prohibited">>]>>

\* str.lower() on the words that have an upper-case letter
LowerWord(w) ==
    CASE w = "LLM" -> "llm"
      [] w = "AI" -> "ai"
      [] w = "Docker" -> "docker"
      [] w = "Windows" -> "windows"
      [] w = "Linux" -> "linux"
      [] w = "macOS" -> "macos"
      [] w = "Platform" -> "platform"
      [] OTHER -> w

\* _normalize_item without the test of the length
NormalizeItem_KeepsShort(item) ==
    LET item_lower == LowerWord(item)
        IGNORE_WORDS == {"is", "are", "was", "were", "be", "been", "being",
                         "a", "an", "the", "usage", "access", "use", "it",
                         "this", "that", "internet", "network"}
    IN IF item_lower \in IGNORE_WORDS THEN ""
       ELSE CASE item_lower \in {"llm", "llms"} -> "LLM"
              [] item_lower = "ai" -> "AI"
              [] item_lower = "gpt" -> "GPT"
              [] item_lower = "chatgpt" -> "ChatGPT"
              [] item_lower = "cloud" -> "Cloud"
              [] OTHER -> item

\* ForbiddenExtractor._normalize_item: "" for a word of IGNORE_WORDS and for
\* a word of two characters or fewer, the entry of FORBIDDEN_NORMALIZE for a
\* word it lists, the word itself otherwise
NormalizeItem(item) ==
    LET item_lower == LowerWord(item)
        IGNORE_WORDS == {"is", "are", "was", "were", "be", "been", "being",
                         "a", "an", "the", "usage", "access", "use", "it",
                         "this", "that", "internet", "network"}
    IN IF item_lower \in IGNORE_WORDS THEN ""
       ELSE IF Len(item_lower) <= 2 THEN ""
       ELSE CASE item_lower \in {"llm", "llms"} -> "LLM"
              [] item_lower = "ai" -> "AI"
              [] item_lower = "gpt" -> "GPT"
              [] item_lower = "chatgpt" -> "ChatGPT"
              [] item_lower = "cloud" -> "Cloud"
              [] OTHER -> item

RECURSIVE Finditer(_, _, _)
\* pattern.finditer(normalized_text): match.group(1) of the matches of one
\* pattern from word i on, left to right and without overlap
Finditer(words, i, pattern) ==
    LET n == Len(pattern.pre) + 1 + Len(pattern.post)
        matches ==
            /\ \A k \in 1..Len(pattern.pre) :
                   LowerWord(words[i + k - 1]) = pattern.pre[k]
            /\ \A k \in 1..Len(pattern.post) :
                   LowerWord(words[i + Len(pattern.pre) + k]) = pattern.post[k]
    IN IF i + n - 1 > Len(words) THEN << >>
       ELSE IF matches
            THEN <<words[i + Len(pattern.pre)]>> \o Finditer(words, i + n, pattern)
            ELSE Finditer(words, i + 1, pattern)

RECURSIVE ForbiddenItems(_, _, _)
\* the loops of ForbiddenExtractor.extract from the p-th pattern on: every
\* captured word is normalized and appended unless it is "" or already
\* in forbidden_items
ForbiddenItems(words, p, forbidden_items) ==
    IF p > Len(FORBIDDEN_PATTERNS) THEN forbidden_items
    ELSE LET captured == Finditer(words, 1, FORBIDDEN_PATTERNS[p])
             normalized == [k \in 1..Len(captured) |-> NormalizeItem(captured[k])]
             Kept(x) == x # ""
         IN ForbiddenItems(words, p + 1,
                           AddNew(forbidden_items, SelectSeq(normalized, Kept)))

\* ForbiddenExtractor.extract(normalized_text, sentences) called on its own:
\* None (<< >>), or the list as value with the fixed confidence
CallForbiddenExtract(text) ==
    /\ pc = "idle"
    /\ direct = << >>
    /\ direct' = <<[fn |-> "forbidden.extract", text |-> text,
                    ret |-> LET forbidden_items == ForbiddenItems(text, 1, << >>)
                            IN IF forbidden_items = << >> THEN << >>
                               ELSE <<[value |-> forbidden_items,
                                       confidence |-> 90]>>]>>
    /\ UNCHANGED <<pc, user_input, norm_result, extractions, fields, unknowns,
                   ambiguity_score, ran, result, registry, history>>

\* ------------------------------------------- PlatformExtractor, by words

\* PLATFORM_MAP: keyword and canonical platform, in the order of the table
\* (Korean keywords romanised: windou 윈도우, windo 윈도, rinukseu 리눅스,
\* maek 맥, keuroseupeullaetpom 크로스플랫폼, meoltipeullaetpom 멀티플랫폼,
\* giban 기반, hwangyeong 환경)
PLATFORM_MAP ==
    <<<<"windows", "Windows">>, <<"win", "Windows">>, <<"windou", "Windows">>,
      <<"windo", "Windows">>, <<"linux", "Linux">>, <<"rinukseu", "Linux">>,
      <<"ubuntu", "Linux">>, <<"centos", "Linux">>, <<"debian", "Linux">>,
      <<"macos", "macOS">>, <<"mac os", "macOS">>, <<"osx", "macOS">>,
      <<"mac", "macOS">>, <<"maek", "macOS">>, <<"wsl", "Linux">>,
      <<"cross-platform", "Cross-platform">>,
      <<"keuroseupeullaetpom", "Cross-platform">>, <<"meoltipeullaetpom", "Cross-platform">>>>

\* CONTEXT_PATTERNS, in table order: the words before the captured word
\* (\w+), an optional word before it, and the words of which one follows it
CONTEXT_PATTERNS ==
    <<[pre |-> <<"platform">>, opt |-> "", post |-> {}],
      [pre |-> <<"target", "environment">>, opt |-> "is", post |-> {}],
      [pre |-> << >>, opt |-> "", post |-> {"giban", "hwangyeong", "based", "environment"}],
      [pre |-> <<"on">>, opt |-> "", post |-> {}]>>

\* `keyword in text_lower` for a text of words separated by one blank: the
\* keywords of PLATFORM_MAP that are substrings of one of its words (no
\* word enumerated here is "mac", so "mac os" is in no text)
KeywordsIn(words) ==
    UNION {CASE LowerWord(words[i]) = "windows" -> {"windows", "win"}
             [] LowerWord(words[i]) = "linux" -> {"linux"}
             [] LowerWord(words[i]) = "macos" -> {"macos", "mac"}
             [] LowerWord(words[i]) = "wsl" -> {"wsl"}
             [] OTHER -> {} : i \in 1..Len(words)}

RECURSIVE SearchContext(_, _, _)
\* pattern.search(normalized_text) from word i on: the index of the word
\* match.group(1) of the first match, 0 without a match
SearchContext(words, i, pattern) ==
    LET j == i + Len(pattern.pre)
        pre_ok == /\ j - 1 <= Len(words)
                  /\ \A k \in 1..Len(pattern.pre) :
                         LowerWord(words[i + k - 1]) = pattern.pre[k]
        Follows(c) == /\ c <= Len(words)
                      /\ pattern.post # {} =>
                            c + 1 <= Len(words) /\ LowerWord(words[c + 1]) \in pattern.post
        with_opt == /\ pattern.opt # ""
                    /\ j <= Len(words)
                    /\ LowerWord(words[j]) = pattern.opt
                    /\ Follows(j + 1)
    IN IF i > Len(words) THEN 0
       ELSE IF pre_ok /\ with_opt THEN j + 1
       ELSE IF pre_ok /\ Follows(j) THEN j
       ELSE SearchContext(words, i + 1, pattern)

\* PlatformExtractor.extract with the keyword scan in the order of the text
PlatformExtractWords_TextOrder(words) ==
    LET Platform(keyword) ==
            LET k == CHOOSE k \in 1..Len(PLATFORM_MAP) : PLATFORM_MAP[k][1] = keyword
            IN PLATFORM_MAP[k][2]
        keys == {PLATFORM_MAP[k][1] : k \in 1..Len(PLATFORM_MAP)}
        candidate(p) == LowerWord(words[SearchContext(words, 1, CONTEXT_PATTERNS[p])])
        hits == {p \in 1..Len(CONTEXT_PATTERNS) :
                    /\ SearchContext(words, 1, CONTEXT_PATTERNS[p]) > 0
                    /\ candidate(p) \in keys}
        found == {i \in 1..Len(words) : KeywordsIn(<<words[i]>>) # {}}
    IN IF hits # {}
       THEN <<[value |-> Platform(candidate(CHOOSE p \in hits : \A q \in hits : p <= q)),
               confidence |-> 95]>>
       ELSE IF found # {}
       THEN <<[value |-> Platform(CHOOSE kw \in KeywordsIn(<<words[CHOOSE i \in found : \A h \in found : i <= h]>>) : TRUE),
               confidence |-> 85]>>
       ELSE << >>

\* PlatformExtractor.extract on a text of words: the first contextual
\* pattern whose match captures a key of PLATFORM_MAP gives its platform
\* with 0.95; otherwise the first keyword of PLATFORM_MAP, in table order,
\* that the text contains gives its platform with 0.85; otherwise None
PlatformExtractWords(words) ==
    LET Platform(keyword) ==
            LET k == CHOOSE k \in 1..Len(PLATFORM_MAP) : PLATFORM_MAP[k][1] = keyword
            IN PLATFORM_MAP[k][2]
        keys == {PLATFORM_MAP[k][1] : k \in 1..Len(PLATFORM_MAP)}
        candidate(p) == LowerWord(words[SearchContext(words, 1, CONTEXT_PATTERNS[p])])
        hits == {p \in 1..Len(CONTEXT_PATTERNS) :
                    /\ SearchContext(words, 1, CONTEXT_PATTERNS[p]) > 0
                    /\ candidate(p) \in keys}
        found == {k \in 1..Len(PLATFORM_MAP) : PLATFORM_MAP[k][1] \in KeywordsIn(words)}
    IN IF hits # {}
       THEN <<[value |-> Platform(candidate(CHOOSE p \in hits : \A q \in hits : p <= q)),
               confidence |-> 95]>>
       ELSE IF found # {}
       THEN <<[value |-> PLATFORM_MAP[CHOOSE k \in found : \A h \in found : k <= h][2],
               confidence |-> 85]>>
       ELSE << >>

\* PlatformExtractor.extract(normalized_text, sentences) called on its own
CallPlatformExtract(text) ==
    /\ pc = "idle"
    /\ direct = << >>
    /\ direct' = <<[fn |-> "platform.extract", text |-> text,
                    ret |-> PlatformExtractWords(text)]>>
    /\ UNCHANGED <<pc, user_input, norm_result, extractions, fields, unknowns,
                   ambiguity_score, ran, result, registry, history>>

\* ------------------------------------------------------------ TeamSizeRule
\* TeamSizeRule.applies(ctx) on a context whose result holds the three
\* team-size fields: fully unknown, or a range with different ends
TeamSizeApplies(r) ==
    IF r.team_size = NONE /\ r.team_size_min = NONE THEN TRUE
    ELSE IF /\ r.team_size_min # NONE
            /\ r.team_size_max # NONE
            /\ r.team_size_min # r.team_size_max
    THEN TRUE
    ELSE FALSE

\* TeamSizeRule().applies(RuleContext(result=ObservationResult(...)))
CallTeamSizeApplies(r) ==
    /\ pc = "idle"
    /\ direct = << >>
    /\ direct' = <<[fn |-> "TeamSizeRule.applies", result |-> r,
                    ret |-> TeamSizeApplies(r)]>>
    /\ UNCHANGED <<pc, user_input, norm_result, extractions, fields, unknowns,
                   ambiguity_score, ran, result, registry, history>>

\* ------------------------------------------- normalization, char by char
\* _normalize_text works below the token level: here a text is a sequence
\* of characters, each standing for its class
MaxChars == 5
DigitChars == {"1", "2"}        \* \d
LetterChars == {"a", "B"}       \* [a-zA-Z]
SpaceChars == {" ", "\n"}       \* \s
\* "." stands for every other character (punctuation, Hangul, ...)

RECURSIVE InsertBetween(_, _, _)
\* re.sub(r'(left)(right)', r'\1 \2', s): a blank between every character
\* of `left` and a character of `right` that follows it directly
InsertBetween(s, left, right) ==
    IF Len(s) < 2 THEN s
    ELSE (IF s[1] \in left /\ s[2] \in right THEN <<s[1], " ">> ELSE <<s[1]>>)
         \o InsertBetween(Tail(s), left, right)

RECURSIVE CollapseSpaces(_)
\* re.sub(r'\s+', ' ', s)
CollapseSpaces(s) ==
    IF s = << >> THEN << >>
    ELSE IF s[1] \in SpaceChars
    THEN IF Len(s) > 1 /\ s[2] \in SpaceChars
         THEN CollapseSpaces(Tail(s))
         ELSE <<" ">> \o CollapseSpaces(Tail(s))
    ELSE <<s[1]>> \o CollapseSpaces(Tail(s))

RECURSIVE StripChars(_)
\* str.strip()
StripChars(s) ==
    IF s = << >> THEN << >>
    ELSE IF s[1] \in SpaceChars THEN StripChars(Tail(s))
    ELSE IF s[Len(s)] \in SpaceChars THEN StripChars(SubSeq(s, 1, Len(s) - 1))
    ELSE s

\* _normalize_text without step 2, the blank between a letter and a digit
NormalizeTextChars_NoStep2(text) ==
    StripChars(CollapseSpaces(InsertBetween(text, DigitChars, LetterChars)))

\* _normalize_text: steps 1 to 4
NormalizeTextChars(text) ==
    StripChars(CollapseSpaces(
        InsertBetween(InsertBetween(text, DigitChars, LetterChars),
                      LetterChars, DigitChars)))

\* normalize(text).normalized
NormalizedChars(text) ==
    IF text = << >> \/ StripChars(text) = << >> THEN << >> ELSE NormalizeTextChars(text)

\* normalize(text) called on its own, the text given character by character
CallNormalize(text) ==
    /\ pc = "idle"
    /\ direct = << >>
    /\ direct' = <<[fn |-> "normalize", text |-> text, ret |-> NormalizedChars(text)]>>
    /\ UNCHANGED <<pc, user_input, norm_result, extractions, fields, unknowns,
                   ambiguity_score, ran, result, registry, history>>

\* the caller has consumed the returned value
DirectReturn ==
    /\ direct # << >>
    /\ direct' = << >>
    /\ UNCHANGED <<pc, user_input, norm_result, extractions, fields, unknowns,
                   ambiguity_score, ran, result, registry, history>>

NextDirect ==
    \/ pc = "idle" /\ direct = << >> /\
       \E text \in ScoreTexts, exs \in SeqsUpTo({ExtractResult("deadline", 30, 85, << >>), ExtractResult("team_size", 3, 60, << >>), ExtractResult("platform", 2, 50, << >>), ExtractResult("stack", 1, 65, << >>)}, 3), unks \in SeqsUpTo({Unknown("deadline_missing", 0, 0, 0, "", Lit("ev_no_schedule"))}, 3),
          must_have_count \in {0, 2, 5}, nice_to_have_count \in {0, 3} :
          CallCalculateAmbiguityScore(text, exs, unks, must_have_count,
                                      nice_to_have_count)
    \/ pc = "idle" /\ direct = << >> /\
       \E text \in SeqsUpTo(DeadlineVocab \cup {Tk1("mo", 6), Tk1("wk", 2), Tk("word")}, MaxTok) : CallExtractFromSentence(text)
    \/ pc = "idle" /\ direct = << >> /\
       \E text \in SectionTexts(MaxSections), family \in {"must", "nice"} :
          CallExtractSection(text, family)
    \/ pc = "idle" /\ direct = << >> /\
       \E text \in SeqsUpTo({"LLM", "llms", "AI", "Docker", "is", "forbidden",
                              "without", "prohibited"}, MaxWords) :
          CallForbiddenExtract(text)
    \/ pc = "idle" /\ direct = << >> /\
       \E text \in SeqsUpTo({"Windows", "Linux", "macOS", "wsl", "on", "based",
                              "the", "Platform"}, MaxWords) :
          CallPlatformExtract(text)
    \* the dataclass checks nothing: each field is None or a number
    \/ pc = "idle" /\ direct = << >> /\
       \E ts \in {NONE} \cup 1..(MaxNum + 1), mn \in {NONE} \cup 1..(MaxNum + 1),
          mx \in {NONE} \cup 1..(MaxNum + 1) :
          CallTeamSizeApplies([team_size |-> ts, team_size_min |-> mn,
                               team_size_max |-> mx])
    \* texts that name the domain triggers in any order, the last two in the
    \* reverse of the order in which the code tests them
    \/ pc = "idle" /\ direct = << >> /\
       \E text \in SeqsUpTo(DomainVocab \ {Tk1("mo", 1), Tk1("team_of", M)}, 2)
                   \cup {<<Tk("wsl"), k, Tk("no_internet"), Tk("rbac"), Tk("audit"),
                           Tk("traceability"), Tk("secsgem")>> :
                            k \in {Tk("security"), Tk("compliance")}},
          exs \in SeqsUpTo({ExtractResult("deadline", 30, 85, << >>),
                            ExtractResult("team_size", 3, 60, <<Tk1("myung", 3)>>),
                            ExtractResult("platform", 2, 50, <<Tk("on_linux")>>),
                            ExtractResult("stack", 1, 65, <<Tk("python")>>)}, 2),
          deadline_days \in {NONE, 30},
          team \in {<<NONE, NONE, NONE>>, <<3, NONE, NONE>>, <<NONE, 1, 2>>} :
          CallGenerateUnknowns(text, exs, deadline_days, team)
    \* the generator module's function, on texts with the domain triggers
    \* or with a stated preference, and every shape of the team fields
    \/ pc = "idle" /\ direct = << >> /\
       \E text \in SeqsUpTo((DomainVocab \ {Tk1("mo", 1), Tk1("team_of", M)})
                                 \cup {Tk("keomp")}, 2)
                   \cup SeqsUpTo({Tk("ideally"), Tk("preferred"), Tk("best"),
                                  Tk("seonho"), Tk1("num", M), Tk1("num", M + 1)}, 2),
          exs \in {<< >>, <<ExtractResult("team_size", 3, 60, <<Tk1("myung", 3)>>)>>,
                   <<ExtractResult("platform", 2, 50, <<Tk("on_linux")>>),
                     ExtractResult("deadline", 30, 85, << >>),
                     ExtractResult("stack", 1, 65, <<Tk("python")>>)>>},
          deadline_days \in {NONE, 30},
          ts \in {NONE, 3}, mn \in {NONE, 1}, mx \in {NONE, M},
          team_range_evidence \in {<< >>, <<Tk2("range_ko", 1, M)>>} :
          CallGeneratorGenerateUnknowns(text, exs, deadline_days, <<ts, mn, mx>>,
                                        team_range_evidence)
    \/ pc = "idle" /\ direct = << >> /\
       \E text \in SeqsUpTo(DigitChars \cup LetterChars \cup SpaceChars \cup {"."},
                             MaxChars) : CallNormalize(text)
    \/ DirectReturn

\* observe_v2 and the module functions, each callable by a client
NextAll == Next \/ NextDirect

SpecAll == Init /\ [][NextAll]_vars

\* the module functions alone
SpecDirect == Init /\ [][NextDirect]_vars

\* ------------------------------------------------- the legacy entry points
\* observe, reason and main work on what observe_v2 returned: they act once
\* the run of the pipeline on the input has returned (pc = "done")

\* the largest number of months a deadline is written with
MaxMonths == 25

\* observe(user_input): the result of its call of observe_v2 is converted
CallObserve ==
    /\ pc = "done"
    /\ direct = << >>
    /\ direct' = <<[fn |-> "observe", text |-> user_input, ret |-> Observe(result[1])]>>
    /\ UNCHANGED <<pc, user_input, norm_result, extractions, fields, unknowns,
                   ambiguity_score, ran, result, registry, history>>

\* reason(result) called with an ObservationResult
CallReason(r) ==
    /\ pc = "done"
    /\ direct = << >>
    /\ direct' = <<[fn |-> "reason", result |-> r, ret |-> Reason(r)]>>
    /\ UNCHANGED <<pc, user_input, norm_result, extractions, fields, unknowns,
                   ambiguity_score, ran, result, registry, history>>

\* main() run on the text read from stdin
CallMain ==
    /\ pc = "done"
    /\ direct = << >>
    /\ direct' = <<[fn |-> "main", text |-> user_input, ret |-> Main(result[1])]>>
    /\ UNCHANGED <<pc, user_input, norm_result, extractions, fields, unknowns,
                   ambiguity_score, ran, result, registry, history>>

\* propose(obs, analysis) called with the result of observe_v2 and the
\* analysis reason() made of it
CallPropose ==
    /\ pc = "done"
    /\ direct = << >>
    /\ direct' = <<[fn |-> "propose", obs |-> result[1],
                    ret |-> Propose(result[1], Reason(result[1]))]>>
    /\ UNCHANGED <<pc, user_input, norm_result, extractions, fields, unknowns,
                   ambiguity_score, ran, result, registry, history>>

NextLegacy ==
    \* the inputs of the pipeline, texts with many uncertainty keywords, and
    \* a deadline of every number of months
    \/ pc = "idle" /\ direct = << >> /\
       \E text \in Inputs \cup ScoreTexts
                   \cup {<<Tk1("mo", n)>> : n \in 1..MaxMonths}
                   \cup {<<Tk1("team_of", M), Tk("dot"), Tk1("mo", n)>> :
                            n \in 1..MaxMonths} : Call(text)
    \/ ReturnEmpty
    \/ DoNormalize
    \/ DoExtract
    \/ DoCollect
    \/ DoValidate
    \/ DoQuantify
    \/ DoReturn
    \/ CallObserve
    \* reason() is handed the result of observe_v2, or a result a caller
    \* builds from that of a fixture with other team-size fields
    \/ pc = "done" /\ direct = << >> /\
       \E ts \in {result[1].team_size} \cup (IF user_input \in Fixtures THEN {NONE, 3} ELSE {}),
          mn \in {result[1].team_size_min} \cup (IF user_input \in Fixtures THEN {NONE, 1} ELSE {}),
          mx \in {result[1].team_size_max} \cup (IF user_input \in Fixtures THEN {NONE, 2} ELSE {}) :
          CallReason([result[1] EXCEPT !.team_size = ts, !.team_size_min = mn,
                                       !.team_size_max = mx])
    \/ CallMain
    \/ CallPropose
    \/ DirectReturn
    \/ Discard

\* clients of the legacy entry points
SpecLegacy == Init /\ [][NextLegacy]_vars

\* ================================================================= claims
\* C1: for every input, blank input included, the ambiguity_score of the
\* ObservationResult returned by observe_v2 lies in 0..100, and so does every
\* value returned by _calculate_ambiguity_score: it clamps the negative sum
\* (bonus alone) and the sum of capped terms above 100.
C1_ScoreInRange ==
    /\ result # << >> =>
         result[1].ambiguity_score >= 0 /\ result[1].ambiguity_score <= 100
    /\ (direct # << >> /\ direct[1].fn = "_calculate_ambiguity_score") =>
         direct[1].ret >= 0 /\ direct[1].ret <= 100

\* a returned result whose only non-zero term is the -15 bonus: deadline and
\* team size extracted, five listed items, no unknown, no keyword
C1_Witness ==
    /\ pc = "done"
    /\ result[1].unknowns = << >>
    /\ result[1].deadline_days # NONE
    /\ result[1].team_size # NONE
    /\ Len(result[1].must_have) + Len(result[1].nice_to_have) >= 5
    /\ \A i \in 1..Len(result[1].extractions) :
          result[1].extractions[i].confidence >= 70
    /\ \A i \in 1..Len(user_input) :
          Kind(user_input[i]) \in {"inwin", "mo", "dot", "must", "item", "comma"}
    /\ result[1].ambiguity_score = 0

\* C2: in every ObservationResult returned by observe_v2, team_size and the
\* pair (team_size_min, team_size_max) are never both populated; min and max
\* are both set or both None; a range extraction leaves team_size None and
\* sets min and max; a single-value extraction sets team_size only.
C2_TeamSizeExclusive ==
    result # << >> =>
      LET r == result[1]
          IsTeam(e) == e.extractor = "team_size"
          team == SelectSeq(r.extractions, IsTeam)
      IN /\ ~ (r.team_size # NONE
               /\ (r.team_size_min # NONE \/ r.team_size_max # NONE))
         /\ (r.team_size_min = NONE) <=> (r.team_size_max = NONE)
         /\ \A i \in 1..Len(team) :
               IF team[i].isRange
               THEN /\ r.team_size = NONE
                    /\ r.team_size_min = team[i].vmin
                    /\ r.team_size_max = team[i].vmax
               ELSE /\ r.team_size = team[i].value
                    /\ r.team_size_min = NONE
                    /\ r.team_size_max = NONE
         /\ team = << >> =>
               r.team_size = NONE /\ r.team_size_min = NONE /\ r.team_size_max = NONE

\* a returned result that carries a range
C2_Witness ==
    /\ pc = "done"
    /\ result[1].team_size_min # NONE
    /\ result[1].team_size_max # NONE
    /\ result[1].team_size = NONE
    /\ \E i \in 1..Len(result[1].extractions) :
          result[1].extractions[i].extractor = "team_size"
          /\ result[1].extractions[i].isRange

\* C3: every range returned by TeamSizeExtractor has 1 <= min <= max <= 1000
\* and every single value has 1 <= value <= 1000; a candidate outside the
\* bounds is dropped and the scan goes on with the next pattern, so a valid
\* leftmost match of any range pattern in the whole text still yields a
\* range, and failing that a valid match of any single-value pattern in a
\* text free of the exclusion phrases still yields a value.
C3_TeamBounds ==
    pc \in {"collect", "validate", "quantify", "fallback", "done"} /\ ran # {} =>
      LET IsTeam(e) == e.extractor = "team_size"
          team == SelectSeq(extractions, IsTeam)
          span == norm_result.normalized
          InBounds(a, b) == 1 <= a /\ a <= b /\ b <= 1000
          RangeHit(k) ==
              LET i == SearchRange(RANGE_PATTERNS[k], span)
              IN i > 0 /\ InBounds(NumA(span[i]), NumB(span[i]))
          SingleHit(k) ==
              LET i == SearchSingle(SINGLE_PATTERNS[k], span)
              IN i > 0 /\ InBounds(SingleCapture(span[i]), SingleCapture(span[i]))
          AnyRange == \E k \in 1..Len(RANGE_PATTERNS) : RangeHit(k)
          AnySingle == \E k \in 1..Len(SINGLE_PATTERNS) : SingleHit(k)
          Excluded == \E i \in 1..Len(span) : Kind(span[i]) \in {"damdang", "pohaam"}
      IN /\ Len(team) <= 1
         /\ \A i \in 1..Len(team) :
               IF team[i].isRange
               THEN InBounds(team[i].vmin, team[i].vmax)
               ELSE InBounds(team[i].value, team[i].value)
         /\ AnyRange => Len(team) = 1 /\ team[1].isRange
         /\ (~AnyRange /\ ~Excluded /\ AnySingle) => Len(team) = 1 /\ ~team[1].isRange

\* the first range pattern matched "인원은 a~b명" with a > b, that candidate
\* was dropped, and a later pattern supplied the range that was returned
C3_Witness ==
    /\ pc = "collect"
    /\ \E i \in 1..Len(norm_result.normalized) :
          /\ Kind(norm_result.normalized[i]) = "range_ko"
          /\ NumA(norm_result.normalized[i]) > NumB(norm_result.normalized[i])
          /\ \A h \in 1..(i - 1) : Kind(norm_result.normalized[h]) # "range_ko"
    /\ \E i \in 1..Len(extractions) :
          /\ extractions[i].extractor = "team_size"
          /\ extractions[i].isRange
          /\ Kind(extractions[i].evidence[1]) = "range_en"

\* C4: for empty or whitespace-only input observe_v2 returns at once: the
\* normalizer and the extractors have not run, unknowns holds exactly the
\* one "please provide input" entry, extractions is empty, every optional
\* field is None and every list field is empty.
C4_BlankShortCircuit ==
    (pc = "done" /\ \A i \in 1..Len(user_input) : Kind(user_input[i]) \in {"ws", "nl"}) =>
      LET r == result[1]
      IN /\ ran = {}
         /\ Len(r.unknowns) = 1
         /\ r.unknowns[1].id = "empty_input"
         /\ r.extractions = << >>
         /\ r.deadline_days = NONE /\ r.team_size = NONE
         /\ r.team_size_min = NONE /\ r.team_size_max = NONE
         /\ r.platform = NONE
         /\ r.must_have = << >> /\ r.nice_to_have = << >>
         /\ r.language_stack = << >> /\ r.forbidden = << >>
         /\ r.raw_input = user_input

\* a whitespace-only (not empty) input has been answered
C4_Witness ==
    /\ pc = "done"
    /\ Len(user_input) >= 2
    /\ \A i \in 1..Len(user_input) : Kind(user_input[i]) \in {"ws", "nl"}
    /\ Len(result[1].unknowns) = 1

\* C5 as stated: for every result of observe_v2, a None deadline_days comes
\* with the schedule question, a fully missing team size comes with the
\* headcount question, and when both are missing len(unknowns) >= 2.
C5_Original ==
    result # << >> =>
      LET r == result[1]
          Asks(id) == \E i \in 1..Len(r.unknowns) : r.unknowns[i].id = id
          no_deadline == r.deadline_days = NONE
          no_team == r.team_size = NONE /\ r.team_size_min = NONE
                     /\ r.team_size_max = NONE
      IN /\ no_deadline => Asks("deadline_missing")
         /\ no_team => Asks("team_missing")
         /\ (no_deadline /\ no_team) => Len(r.unknowns) >= 2

\* C5: for every result of observe_v2 on an input that is not empty or
\* whitespace-only, a None deadline_days comes with the schedule question, a
\* fully missing team size comes with the headcount question, and when both
\* are missing len(unknowns) >= 2.
C5_MissingFieldsAsked ==
    (result # << >> /\ \E i \in 1..Len(user_input) : Kind(user_input[i]) \notin {"ws", "nl"}) =>
      LET r == result[1]
          Asks(id) == \E i \in 1..Len(r.unknowns) : r.unknowns[i].id = id
          no_deadline == r.deadline_days = NONE
          no_team == r.team_size = NONE /\ r.team_size_min = NONE
                     /\ r.team_size_max = NONE
      IN /\ no_deadline => Asks("deadline_missing")
         /\ no_team => Asks("team_missing")
         /\ (no_deadline /\ no_team) => Len(r.unknowns) >= 2

\* a result for a non-blank input with neither deadline nor team size
C5_Witness ==
    /\ pc = "done"
    /\ \E i \in 1..Len(user_input) : Kind(user_input[i]) \notin {"ws", "nl"}
    /\ result[1].deadline_days = NONE
    /\ result[1].team_size = NONE
    /\ result[1].team_size_min = NONE
    /\ Len(result[1].unknowns) >= 2
    /\ result[1].unknowns[1].id = "deadline_missing"
    /\ result[1].unknowns[2].id = "team_missing"

\* C6: for every non-empty input whose segmentation yields a non-empty
\* sentence, must_have of the result is non-empty; when the requirements
\* extractor recovered no must-have item (also when it recovered only
\* nice-to-have items) must_have is the list of the sentences in order.
C6_MustHaveFallback ==
    (pc = "done" /\ ran # {} /\ norm_result.sentences # << >>) =>
      LET r == result[1]
          IsReq(e) == e.extractor = "requirements"
          req == SelectSeq(r.extractions, IsReq)
          extracted == IF req = << >> THEN << >> ELSE req[1].must_have
      IN /\ r.must_have # << >>
         /\ extracted = << >> => r.must_have = norm_result.sentences
         /\ extracted # << >> => r.must_have = extracted
         /\ \A i \in 1..Len(norm_result.sentences) : norm_result.sentences[i] # << >>

\* only nice-to-have items were recovered and must_have is the sentence list
C6_Witness ==
    /\ pc = "done"
    /\ \E i \in 1..Len(result[1].extractions) :
          /\ result[1].extractions[i].extractor = "requirements"
          /\ result[1].extractions[i].must_have = << >>
          /\ result[1].extractions[i].nice_to_have # << >>
    /\ result[1].must_have = norm_result.sentences
    /\ Len(result[1].must_have) >= 2

\* C7: for a span without D+N shorthand the candidate of
\* _extract_from_sentence is years*365 + months*30 + weeks*7 + days, each
\* quantity being the number of the first match of its unit and 0 when the
\* unit is absent (1 year 6 months = 545, 2 weeks = 14, 1 year and 3 months
\* = 455); a span whose quantities are all 0 gives no candidate.
C7_DeadlineSum ==
    (direct # << >> /\ direct[1].fn = "_extract_from_sentence"
       /\ \A i \in 1..Len(direct[1].text) : Kind(direct[1].text[i]) # "dplus") =>
      LET text == direct[1].text
          ret == direct[1].ret
          First(kind) ==
              IF \E i \in 1..Len(text) : Kind(text[i]) = kind
              THEN LET i == CHOOSE i \in 1..Len(text) :
                              /\ Kind(text[i]) = kind
                              /\ \A h \in 1..(i - 1) : Kind(text[h]) # kind
                   IN NumA(text[i])
              ELSE 0
          total == First("yr") * 365 + First("mo") * 30 + First("wk") * 7 + First("dy")
      IN /\ IF First("yr") = 0 /\ First("mo") = 0 /\ First("wk") = 0 /\ First("dy") = 0
            THEN ret = << >>
            ELSE ret # << >> /\ ret[1].value = total
         /\ text = <<Tk1("yr", 1), Tk1("mo", 6)>> => ret[1].value = 545
         /\ text = <<Tk1("wk", 2)>> => ret[1].value = 14
         /\ text = <<Tk1("yr", 1), Tk("word"), Tk1("mo", 3)>> => ret[1].value = 455

\* a span with two matches of one unit and a second unit: "2 months 1 year
\* 6 months" counts the first months only
C7_Witness ==
    /\ direct # << >>
    /\ direct[1].fn = "_extract_from_sentence"
    /\ direct[1].text = <<Tk1("mo", MaxNum), Tk1("yr", 1), Tk1("mo", 6)>>
    /\ direct[1].ret # << >>
    /\ direct[1].ret[1].value = 365 + 30 * MaxNum

\* C8: DeadlineExtractor.extract returns the candidate with the largest day
\* total among the per-sentence candidates and the full-text candidate (the
\* D+N value when the span has the shorthand, else the unit sum), not the
\* first one found: what it returns is one of the candidates and its value
\* is >= the value of every candidate; it returns nothing only when no
\* candidate is worth more than 0 days.
C8_LargestCandidate ==
    (pc \in {"collect", "validate", "quantify", "fallback", "done"} /\ ran # {}) =>
      LET IsDeadline(e) == e.extractor = "deadline"
          returned == SelectSeq(extractions, IsDeadline)
          spans == {norm_result.normalized}
                     \cup {norm_result.sentences[i] : i \in 1..Len(norm_result.sentences)}
          candidates == {ExtractFromSentence(sp)[1] :
                           sp \in {x \in spans : ExtractFromSentence(x) # << >>}}
      IN /\ Len(returned) <= 1
         /\ returned # << >> =>
               /\ returned[1] \in candidates
               /\ \A c \in candidates : returned[1].value >= c.value
         /\ returned = << >> => \A c \in candidates : c.value = 0

\* the first sentence has a candidate, a later sentence has a larger one,
\* and the larger one was returned
C8_Witness ==
    /\ pc = "collect"
    /\ Len(norm_result.sentences) >= 2
    /\ ExtractFromSentence(norm_result.sentences[1]) # << >>
    /\ \E i \in 1..Len(extractions) :
          /\ extractions[i].extractor = "deadline"
          /\ extractions[i].value > ExtractFromSentence(norm_result.sentences[1])[1].value
          /\ extractions[i] = ExtractFromSentence(norm_result.sentences[2])[1]

\* C9: the ambiguity score is clamp(U + K + M + L - B + C, 0, 100) with
\* U = min(30, 15 * unknowns), K the capped keyword term (3, 3, 4, 4, 5, ...
\* per distinct keyword, at most 30), M = 10 per name of {deadline,
\* team_size} without extraction, L = min(20, 10 * extractions with
\* confidence < 0.7), B = 15 when must_have_count + nice_to_have_count >= 5,
\* C = 5 when a compliance signal keyword is present; observe_v2 passes the
\* counts of the requirements extraction, taken before the sentence
\* fallback.  It is stated of every direct call of the scorer and of every
\* result of observe_v2 for which the scorer ran.
C9_ScoreFormula ==
    LET Expected(text, exs, unks, must_have_count, nice_to_have_count) ==
            LET h == Cardinality({kw \in UNCERTAINTY_KEYWORDS :
                                    \E i \in 1..Len(text) : kw \in TokKW(text[i])})
                U == IF 15 * Len(unks) < 30 THEN 15 * Len(unks) ELSE 30
                K == CASE h = 0 -> 0 [] h = 1 -> 3 [] h = 2 -> 6 [] h = 3 -> 10
                       [] h = 4 -> 14 [] h = 5 -> 19 [] h = 6 -> 24 [] h = 7 -> 29
                       [] OTHER -> 30
                Missing(name) == \A i \in 1..Len(exs) : exs[i].extractor # name
                MM == (IF Missing("deadline") THEN 10 ELSE 0)
                      + (IF Missing("team_size") THEN 10 ELSE 0)
                low == Cardinality({i \in 1..Len(exs) : exs[i].confidence < 70})
                L == IF 10 * low < 20 THEN 10 * low ELSE 20
                B == IF must_have_count + nice_to_have_count >= 5 THEN 15 ELSE 0
                C == IF \E i \in 1..Len(text) : TokKW(text[i]) \cap compliance_signals # {}
                     THEN 5 ELSE 0
                sum == U + K + MM + L - B + C
            IN IF sum < 0 THEN 0 ELSE IF sum > 100 THEN 100 ELSE sum
    IN /\ (direct # << >> /\ direct[1].fn = "_calculate_ambiguity_score") =>
            direct[1].ret = Expected(direct[1].text, direct[1].extractions,
                                     direct[1].unknowns, direct[1].must_have_count,
                                     direct[1].nice_to_have_count)
       /\ (pc = "done" /\ ran # {}) =>
            LET r == result[1]
                IsReq(e) == e.extractor = "requirements"
                req == SelectSeq(r.extractions, IsReq)
                mh == IF req = << >> THEN 0 ELSE Len(req[1].must_have)
                nth == IF req = << >> THEN 0 ELSE Len(req[1].nice_to_have)
            IN r.ambiguity_score =
                 Expected(r.raw_input, r.extractions, r.unknowns, mh, nth)

\* a result whose listed items are fewer than 5 before the sentence fallback
\* and 5 or more after it: the bonus is not applied
C9_Witness ==
    /\ pc = "done"
    /\ ran # {}
    /\ \E i \in 1..Len(result[1].extractions) :
          /\ result[1].extractions[i].extractor = "requirements"
          /\ result[1].extractions[i].must_have = << >>
          /\ Len(result[1].extractions[i].nice_to_have) < 5
    /\ Len(result[1].must_have) + Len(result[1].nice_to_have) >= 5
    /\ result[1].ambiguity_score = 50

\* C10: whenever the team size is extracted as a range, unknowns holds
\* exactly one team-range confirmation, its evidence is the evidence of the
\* range extraction, and there is no "team size missing" unknown; the
\* question is the specific-value phrasing when a detected preferred value
\* lies within [min, max], else the loose phrasing when a preference keyword
\* is present, else the neutral phrasing.
C10_RangeConfirmation ==
    (pc = "done" /\ result[1].team_size_min # NONE /\ result[1].team_size_max # NONE) =>
      LET r == result[1]
          RangeIds == {"team_range_specific", "team_range_loose", "team_range_neutral"}
          asked == {i \in 1..Len(r.unknowns) : r.unknowns[i].id \in RangeIds}
          IsTeam(e) == e.extractor = "team_size"
          team == SelectSeq(r.extractions, IsTeam)
          pv == PreferredValue(r.raw_input)
          in_range == pv # NONE /\ r.team_size_min <= pv /\ pv <= r.team_size_max
      IN /\ Cardinality(asked) = 1
         /\ \A i \in 1..Len(r.unknowns) : r.unknowns[i].id # "team_missing"
         /\ \A i \in asked :
               /\ r.unknowns[i].evidence = team[1].evidence
               /\ r.unknowns[i].a = r.team_size_min
               /\ r.unknowns[i].b = r.team_size_max
               /\ r.unknowns[i].id =
                    (IF in_range THEN "team_range_specific"
                     ELSE IF HasPreference(r.raw_input) THEN "team_range_loose"
                     ELSE "team_range_neutral")
               /\ r.unknowns[i].id = "team_range_specific" => r.unknowns[i].c = pv

\* a range with a preferred value outside it: the loose phrasing was chosen
C10_Witness ==
    /\ pc = "done"
    /\ result[1].team_size_min # NONE
    /\ PreferredValue(user_input) # NONE
    /\ PreferredValue(user_input) > result[1].team_size_max
    /\ \E i \in 1..Len(result[1].unknowns) :
          result[1].unknowns[i].id = "team_range_loose"

\* C11: the unknowns of a result, and of every call of _generate_unknowns,
\* come in group order: the missing-deadline question, then the team-size
\* question (range or missing), then the low-confidence questions in the
\* order of the extractions, then the domain questions in the fixed order
\* SECS/GEM, traceability, audit, role-based access, no-internet,
\* compliance, security, WSL.  No question of a later group stands before
\* one of an earlier group.
C11_UnknownsOrder ==
    LET Rank(id) ==
            CASE id = "deadline_missing" -> 1
              [] id \in {"team_range_specific", "team_range_loose",
                         "team_range_neutral", "team_missing"} -> 2
              [] id = "low_confidence" -> 3
              [] id = "secs_gem" -> 4
              [] id = "traceability" -> 5
              [] id = "audit" -> 6
              [] id = "rbac" -> 7
              [] id = "no_internet" -> 8
              [] id = "compliance" -> 9
              [] id = "security" -> 10
              [] id = "wsl" -> 11
              [] OTHER -> 0
        IsLow(e) == e.confidence < 70
        IsLowUnknown(u) == u.id = "low_confidence"
        Ordered(unks, exs) ==
            /\ \A i, j \in 1..Len(unks) :
                   i < j => \/ Rank(unks[i].id) < Rank(unks[j].id)
                            \/ Rank(unks[i].id) = 3 /\ Rank(unks[j].id) = 3
            /\ LET low == SelectSeq(unks, IsLowUnknown)
                   src == SelectSeq(exs, IsLow)
               IN /\ Len(low) = Len(src)
                  /\ \A i \in 1..Len(low) : low[i].who = src[i].extractor
    IN /\ (pc = "done" /\ ran # {})
            => Ordered(result[1].unknowns, result[1].extractions)
       /\ (direct # << >> /\ direct[1].fn = "_generate_unknowns")
            => Ordered(direct[1].ret, direct[1].extractions)

\* a call whose result has a question of every group, two low-confidence
\* ones and seven domain ones, from a text that names the triggers in the
\* reverse order
C11_Witness ==
    /\ direct # << >>
    /\ direct[1].fn = "_generate_unknowns"
    /\ Len(direct[1].ret) = 11
    /\ Len(direct[1].text) = 7
    /\ direct[1].text[1] = Tk("wsl")
    /\ direct[1].ret[1].id = "deadline_missing"
    /\ direct[1].ret[2].id = "team_range_neutral"
    /\ direct[1].ret[3].id = "low_confidence"
    /\ direct[1].ret[3].who = "stack"
    /\ direct[1].ret[4].who = "team_size"
    /\ direct[1].ret[5].id = "secs_gem"
    /\ direct[1].ret[11].id = "wsl"

\* C12: observe_v2 is a function of its input alone.  Two calls with the
\* same input, in any order and with other calls between them, return equal
\* results, and no call leaves state behind: the registry is as it was, and
\* between calls every local is fresh.
C12_Deterministic ==
    /\ registry = EXTRACTORS
    /\ \A i, j \in 1..Len(history) :
          history[i].input = history[j].input
              => history[i].result = history[j].result
    /\ pc = "done"
          => \A i \in 1..Len(history) :
                history[i].input = user_input => history[i].result = result[1]
    /\ pc = "idle"
          => /\ norm_result = NoNorm /\ extractions = << >> /\ fields = EmptyFields
             /\ unknowns = << >> /\ ambiguity_score = 0 /\ ran = {} /\ result = << >>

\* the same non-blank input has been answered a third time, after a call
\* with a different input, and two earlier answers are kept
C12_Witness ==
    /\ pc = "done"
    /\ Len(history) = 3
    /\ history[1].input = user_input
    /\ history[3].input = user_input
    /\ history[2].input # user_input
    /\ history[2].result.extractions # << >>
    /\ Len(result[1].extractions) = 3
    /\ result[1] = history[1].result

\* C13: the six extractors are independent of each other.  With the
\* registry in any order the call yields the same set of extraction results
\* and the same fields, unknowns and ambiguity_score as with the registry in
\* its written order; only the order of the extractions list may differ.
C13_OrderIndependent ==
    pc = "done"
        => LET r == result[1]
               canon == ObserveV2(EXTRACTORS, user_input)
           IN /\ {r.extractions[i] : i \in 1..Len(r.extractions)}
                    = {canon.extractions[i] : i \in 1..Len(canon.extractions)}
              /\ Len(r.extractions) = Len(canon.extractions)
              /\ [r EXCEPT !.extractions = << >>] = [canon EXCEPT !.extractions = << >>]

\* a call with the registry reversed on which all six extractors answer,
\* so that the extractions list comes in the opposite order
C13_Witness ==
    /\ pc = "done"
    /\ registry = [i \in 1..6 |-> EXTRACTORS[7 - i]]
    /\ Len(result[1].extractions) = 6
    /\ result[1].extractions[1].extractor = "forbidden"
    /\ result[1].extractions[6].extractor = "deadline"
    /\ result[1].language_stack # << >>
    /\ result[1].platform # NONE

C15_ConfidenceInRange ==
    /\ \A i \in 1..Len(extractions) :
          extractions[i].confidence >= 0 /\ extractions[i].confidence <= 100
    /\ result # << >>
          => \A i \in 1..Len(result[1].extractions) :
                /\ result[1].extractions[i].confidence >= 0
                /\ result[1].extractions[i].confidence <= 100

\* a result whose team size comes from the pattern with base 0.95 in a text
\* with a context keyword: the bonus would give 1.05, the result has 1.0
C15_Witness ==
    /\ pc = "done"
    /\ \E i \in 1..Len(user_input) : Kind(user_input[i]) = "inwin"
    /\ \E i \in 1..Len(result[1].extractions) :
          /\ result[1].extractions[i].extractor = "team_size"
          /\ ~result[1].extractions[i].isRange
          /\ result[1].extractions[i].confidence = 100
    /\ \E i \in 1..Len(result[1].extractions) :
          /\ result[1].extractions[i].extractor = "deadline"
          /\ result[1].extractions[i].confidence = 85

\* C18: for every input whose deadline is extracted as exactly N months
\* (deadline_days = 30 * N, N >= 1) the result of the legacy observe() has
\* exactly one [일정] constraint, and it states N months: as N개월, or as
\* years plus months that add up to N months.  No whole month is dropped.
C18_MonthsKept ==
    (direct # << >> /\ direct[1].fn = "observe")
        => LET days == ObserveV2(EXTRACTORS, direct[1].text).deadline_days
               cs == direct[1].ret.constraints
               IsSchedule(c) == c.tag = "iljeong"
               Part(x) == IF x = NONE THEN 0 ELSE x
           IN (days # NONE /\ days >= 30 /\ days % 30 = 0)
                 => /\ Len(SelectSeq(cs, IsSchedule)) = 1
                    /\ LET c == SelectSeq(cs, IsSchedule)[1]
                       IN /\ c.c = NONE /\ c.d = NONE
                          /\ 12 * Part(c.a) + Part(c.b) = days \div 30

\* C16: in main(), for every non-blank input the sequence observe ->
\* reason -> propose -> format runs to completion and prints the report:
\* the value handed to reason() and propose() has every field those
\* functions read, so no step fails on a missing field.
C16_MainCompletes ==
    (direct # << >> /\ direct[1].fn = "main" /\ ~IsBlank(direct[1].text))
        => /\ direct[1].ret.outcome = "printed"
           /\ LET observation == Observe(ObserveV2(EXTRACTORS, direct[1].text))
              IN /\ FirstMissing(observation, ReasonReads) = ""
                 /\ FirstMissing(observation, ProposeReads) = ""

C19_KeywordTerm ==
    (direct # << >> /\ direct[1].fn = "_calculate_ambiguity_score") =>
        LET Top == MaxHits + 2
            w[i \in 1..Top] == IF i <= 2 THEN 3 ELSE IF i <= 4 THEN 4 ELSE 5
            sum[n \in 0..Top] == IF n = 0 THEN 0 ELSE sum[n - 1] + w[n]
            term[n \in 0..Top] == IF sum[n] < 30 THEN sum[n] ELSE 30
        IN /\ \A n \in 0..(Top - 1) : term[n] <= term[n + 1] /\ term[n] <= 30
           /\ <<term[0], term[1], term[2], term[3], term[4], term[5], term[6], term[7],
                term[8], term[9]>> = <<0, 3, 6, 10, 14, 19, 24, 29, 30, 30>>
           /\ (/\ direct[1].unknowns = << >>
               /\ direct[1].extractions = << >>
               /\ direct[1].must_have_count + direct[1].nice_to_have_count < 5
               /\ \A i \in 1..Len(direct[1].text) :
                     TokKW(direct[1].text[i]) \cap compliance_signals = {})
              => LET text == direct[1].text
                     h == Cardinality({kw \in UNCERTAINTY_KEYWORDS :
                                         \E i \in 1..Len(text) : kw \in TokKW(text[i])})
                 IN direct[1].ret - 20 = term[h]

\* a call on a text with eight distinct keywords, one of them twice: the
\* uncapped sum would be 34, the term is 30
C19_Witness ==
    /\ direct # << >>
    /\ direct[1].fn = "_calculate_ambiguity_score"
    /\ direct[1].unknowns = << >>
    /\ direct[1].extractions = << >>
    /\ direct[1].must_have_count + direct[1].nice_to_have_count < 5
    /\ Len(direct[1].text) = 9
    /\ direct[1].text[9] = direct[1].text[1]
    /\ Cardinality({direct[1].text[i] : i \in 1..9}) = 8
    /\ direct[1].ret = 50

\* C20 as stated: for every input in which both critical fields are
\* extracted and must_have_count + nice_to_have_count >= 5, the score is
\* strictly lower than the naive sum of the other terms (unknown-count,
\* keyword, missing-critical, low-confidence, compliance) without the bonus.
C20_Original ==
    LET Naive(text, exs, unks) ==
            LET h == Cardinality({kw \in UNCERTAINTY_KEYWORDS :
                                    \E i \in 1..Len(text) : kw \in TokKW(text[i])})
                U == IF 15 * Len(unks) < 30 THEN 15 * Len(unks) ELSE 30
                K == CASE h = 0 -> 0 [] h = 1 -> 3 [] h = 2 -> 6 [] h = 3 -> 10
                       [] h = 4 -> 14 [] h = 5 -> 19 [] h = 6 -> 24 [] h = 7 -> 29
                       [] OTHER -> 30
                low == Cardinality({i \in 1..Len(exs) : exs[i].confidence < 70})
                L == IF 10 * low < 20 THEN 10 * low ELSE 20
                C == IF \E i \in 1..Len(text) : TokKW(text[i]) \cap compliance_signals # {}
                     THEN 5 ELSE 0
            IN U + K + L + C
        Both(exs) == /\ \E i \in 1..Len(exs) : exs[i].extractor = "deadline"
                     /\ \E i \in 1..Len(exs) : exs[i].extractor = "team_size"
    IN /\ (/\ direct # << >>
           /\ direct[1].fn = "_calculate_ambiguity_score"
           /\ Both(direct[1].extractions)
           /\ direct[1].must_have_count + direct[1].nice_to_have_count >= 5)
          => direct[1].ret < Naive(direct[1].text, direct[1].extractions,
                                   direct[1].unknowns)
       /\ (pc = "done" /\ ran # {} /\ Both(result[1].extractions)
           /\ \E i \in 1..Len(result[1].extractions) :
                 /\ result[1].extractions[i].extractor = "requirements"
                 /\ Len(result[1].extractions[i].must_have)
                      + Len(result[1].extractions[i].nice_to_have) >= 5)
          => result[1].ambiguity_score
               < Naive(result[1].raw_input, result[1].extractions, result[1].unknowns)

\* C20, amended: under the same condition the score is max(0, naive - 15),
\* where naive is the sum of the other terms; it is strictly lower than
\* naive when naive > 0, and it is 0, equal to naive, when naive = 0.
C20_BonusLowers ==
    LET Naive(text, exs, unks) ==
            LET h == Cardinality({kw \in UNCERTAINTY_KEYWORDS :
                                    \E i \in 1..Len(text) : kw \in TokKW(text[i])})
                U == IF 15 * Len(unks) < 30 THEN 15 * Len(unks) ELSE 30
                K == CASE h = 0 -> 0 [] h = 1 -> 3 [] h = 2 -> 6 [] h = 3 -> 10
                       [] h = 4 -> 14 [] h = 5 -> 19 [] h = 6 -> 24 [] h = 7 -> 29
                       [] OTHER -> 30
                low == Cardinality({i \in 1..Len(exs) : exs[i].confidence < 70})
                L == IF 10 * low < 20 THEN 10 * low ELSE 20
                C == IF \E i \in 1..Len(text) : TokKW(text[i]) \cap compliance_signals # {}
                     THEN 5 ELSE 0
            IN U + K + L + C
        Both(exs) == /\ \E i \in 1..Len(exs) : exs[i].extractor = "deadline"
                     /\ \E i \in 1..Len(exs) : exs[i].extractor = "team_size"
        Lowered(score, naive) ==
            /\ score = (IF naive - 15 > 0 THEN naive - 15 ELSE 0)
            /\ naive > 0 => score < naive
            /\ naive = 0 => score = 0
    IN /\ (/\ direct # << >>
           /\ direct[1].fn = "_calculate_ambiguity_score"
           /\ Both(direct[1].extractions)
           /\ direct[1].must_have_count + direct[1].nice_to_have_count >= 5)
          => Lowered(direct[1].ret, Naive(direct[1].text, direct[1].extractions,
                                          direct[1].unknowns))
       /\ (pc = "done" /\ ran # {} /\ Both(result[1].extractions)
           /\ \E i \in 1..Len(result[1].extractions) :
                 /\ result[1].extractions[i].extractor = "requirements"
                 /\ Len(result[1].extractions[i].must_have)
                      + Len(result[1].extractions[i].nice_to_have) >= 5)
          => Lowered(result[1].ambiguity_score,
                     Naive(result[1].raw_input, result[1].extractions,
                           result[1].unknowns))

\* a call with both critical fields, five items, two unknowns and seven
\* keywords: the naive sum is 30 + 29 + 10 = 69 and the score is 54
C20_Witness ==
    /\ direct # << >>
    /\ direct[1].fn = "_calculate_ambiguity_score"
    /\ \E i \in 1..Len(direct[1].extractions) : direct[1].extractions[i].extractor = "deadline"
    /\ \E i \in 1..Len(direct[1].extractions) : direct[1].extractions[i].extractor = "team_size"
    /\ direct[1].must_have_count + direct[1].nice_to_have_count >= 5
    /\ Len(direct[1].unknowns) = 2
    /\ Len(direct[1].text) = 7
    /\ Len(direct[1].extractions) = 2
    /\ direct[1].ret = 54

\* C21: for every input, the unknowns of the result never hold both the
\* compliance question and the security question: the security question is
\* left out whenever the compliance trigger matched, by the English or by
\* the Korean keyword.
C21_SecuritySuppressed ==
    (pc = "done")
        => ~(/\ \E i \in 1..Len(result[1].unknowns) :
                   result[1].unknowns[i].id = "compliance"
             /\ \E i \in 1..Len(result[1].unknowns) :
                   result[1].unknowns[i].id = "security")

\* C22: for every input in which no range pattern has a valid match, in
\* the whole text or in a sentence, and which holds a partial-headcount
\* phrase ("담당 N명", "N명 포함"), TeamSizeExtractor.extract returns None:
\* once the extractors have run there is no team_size extraction.
C22_ExclusionAbsent ==
    (pc \in {"collect", "validate", "quantify", "fallback", "done"} /\ ran # {})
        => LET sentences == norm_result.sentences
               no_range ==
                   /\ TryRange(RANGE_PATTERNS, Vis(norm_result.normalized)) = << >>
                   /\ \A i \in 1..Len(sentences) :
                          TryRange(RANGE_PATTERNS, Vis(sentences[i])) = << >>
           IN (no_range /\ MatchesExclusion(Vis(norm_result.normalized)))
                 => \A i \in 1..Len(extractions) :
                        extractions[i].extractor # "team_size"

\* C23: in _extract_section, for every occurrence of a starter of the
\* family the captured span ends no later than the start of the next
\* occurrence of a starter of the same family, an occurrence of the very
\* same pattern included; hence no returned item holds a starter of the
\* family, and nothing is captured by two occurrences.
C23_NoDoubleCapture ==
    (direct # << >> /\ direct[1].fn = "_extract_section")
        => LET span == Vis(direct[1].text)
               family == direct[1].family
               starters == StarterKinds(family)
               IsStarter(t) == \E p \in 1..Len(starters) : Kind(t) = starters[p]
           IN /\ \A st \in 1..Len(span), j \in 1..Len(span) :
                    (st < j /\ IsStarter(span[st]) /\ IsStarter(span[j]))
                       => SectionEnd(span, st, family) <= j
              /\ \A i \in 1..Len(direct[1].ret) :
                    \A h \in 1..Len(direct[1].ret[i]) :
                       ~IsStarter(direct[1].ret[i][h])

C25_PlatformChoice ==
    \A i \in 1..Len(direct) :
        direct[i].fn = "platform.extract" =>
            LET words == direct[i].text
                ret == direct[i].ret
                keys == {PLATFORM_MAP[k][1] : k \in 1..Len(PLATFORM_MAP)}
                at(p) == SearchContext(words, 1, CONTEXT_PATTERNS[p])
                captured == {p \in 1..Len(CONTEXT_PATTERNS) :
                                at(p) > 0 /\ LowerWord(words[at(p)]) \in keys}
                TableRank(keyword) ==
                    CHOOSE k \in 1..Len(PLATFORM_MAP) : PLATFORM_MAP[k][1] = keyword
                occurring == KeywordsIn(words)
            IN /\ ret # << >> =>
                    ret[1].value \in {"Windows", "Linux", "macOS", "Cross-platform"}
               /\ captured # {} =>
                    /\ ret # << >>
                    /\ ret[1].confidence = 95
                    /\ \E p \in captured :
                          /\ \A q \in captured : p <= q
                          /\ ret[1].value = PLATFORM_MAP[TableRank(LowerWord(words[at(p)]))][2]
               /\ captured = {} /\ occurring # {} =>
                    /\ ret # << >>
                    /\ ret[1].confidence = 85
                    /\ \E kw \in occurring :
                          /\ \A other \in occurring : TableRank(kw) <= TableRank(other)
                          /\ ret[1].value = PLATFORM_MAP[TableRank(kw)][2]
               /\ captured = {} /\ occurring = {} => ret = << >>

\* C25 witness: 'Linux the Windows' holds no contextual match; linux comes
\* first in the text, windows first in the table, and Windows is returned
C25_Witness ==
    /\ Len(direct) = 1
    /\ direct[1].fn = "platform.extract"
    /\ direct[1].text = <<"Linux", "the", "Windows">>
    /\ direct[1].ret = <<[value |-> "Windows", confidence |-> 85]>>


C28_ClarifyFirst ==
    \A i \in 1..Len(direct) :
        direct[i].fn = "propose" =>
            LET obs == direct[i].obs
                Extracted(name) == \E k \in 1..Len(obs.extractions) :
                                      obs.extractions[k].extractor = name
                structured_count ==
                    IF Extracted("requirements")
                    THEN LET e == obs.extractions[CHOOSE k \in 1..Len(obs.extractions) :
                                       obs.extractions[k].extractor = "requirements"]
                         IN Len(e.must_have) + Len(e.nice_to_have)
                    ELSE 0
            IN (/\ ~IsBlank(obs.raw_input)
                /\ ~Extracted("deadline")
                /\ ~Extracted("team_size")
                /\ obs.deadline_days = NONE
                /\ obs.team_size = NONE /\ obs.team_size_min = NONE
                /\ structured_count < 5)
               => /\ obs.ambiguity_score >= 50
                  /\ direct[i].ret.recommendation = "clarify_unknowns"

\* C28 witness: a text with neither deadline nor team size but with listed
\* requirements, whose score is exactly 50
C28_Witness ==
    /\ Len(direct) = 1
    /\ direct[1].fn = "propose"
    /\ ~IsBlank(direct[1].obs.raw_input)
    /\ direct[1].obs.deadline_days = NONE
    /\ direct[1].obs.team_size = NONE
    /\ direct[1].obs.team_size_min = NONE
    /\ \E k \in 1..Len(direct[1].obs.extractions) :
          direct[1].obs.extractions[k].extractor = "requirements"
    /\ direct[1].obs.ambiguity_score = 50
    /\ direct[1].ret.recommendation = "clarify_unknowns"


\* C29: the deadline_days of a result is None or at least 1.  A candidate of
\* 0 days is never selected: when every candidate of the sentences and of
\* the full text is 0 days the result has no deadline extraction and holds
\* the missing-deadline unknown.  Otherwise the extraction is the candidate
\* of the earliest sentence with the largest total, unless the candidate of
\* the full text is strictly larger, which then is taken.
C29_DeadlineAtLeastOne ==
    (pc = "done" /\ result # << >> /\ ~IsBlank(user_input)) =>
        LET r == result[1]
            sentences == norm_result.sentences
            Days(c) == IF c = << >> THEN 0 ELSE c[1].value
            cand(i) == ExtractFromSentence(sentences[i])
            full == ExtractFromSentence(norm_result.normalized)
            largest == CHOOSE d \in {0} \cup {Days(cand(i)) : i \in 1..Len(sentences)} :
                          \A i \in 1..Len(sentences) : Days(cand(i)) <= d
            earliest == CHOOSE i \in 1..Len(sentences) :
                           /\ Days(cand(i)) = largest
                           /\ \A h \in 1..(i - 1) : Days(cand(h)) < largest
            found == {k \in 1..Len(r.extractions) : r.extractions[k].extractor = "deadline"}
        IN /\ r.deadline_days # NONE => r.deadline_days >= 1
           /\ (largest = 0 /\ Days(full) = 0) =>
                 /\ found = {}
                 /\ r.deadline_days = NONE
                 /\ \E k \in 1..Len(r.unknowns) : r.unknowns[k].id = "deadline_missing"
           /\ (largest > 0 \/ Days(full) > 0) =>
                 /\ Cardinality(found) = 1
                 /\ \A k \in found :
                       /\ r.extractions[k] = IF Days(full) > largest THEN full[1]
                                             ELSE cand(earliest)[1]
                       /\ r.deadline_days = r.extractions[k].value

\* C29 witness: the text holds a 'D+0', whose candidate of 0 days is not
\* selected, and the result asks for the deadline
C29_Witness ==
    /\ pc = "done"
    /\ result # << >>
    /\ ExtractFromSentence(norm_result.normalized) # << >>
    /\ ExtractFromSentence(norm_result.normalized)[1].value = 0
    /\ result[1].deadline_days = NONE
    /\ \E k \in 1..Len(result[1].unknowns) : result[1].unknowns[k].id = "deadline_missing"


\* C30: for every combination of text, extractions, deadline_days,
\* team_size, team_size_min, team_size_max and team_range_evidence,
\* generate_unknowns of unknowns/generator.py returns the list that
\* _generate_unknowns of observer.py returns, in the same order.
C30_SameUnknowns ==
    \A i \in 1..Len(direct) :
        direct[i].fn = "generate_unknowns" =>
            direct[i].ret = GenerateUnknowns(direct[i].text, direct[i].extractions,
                                direct[i].deadline_days, direct[i].team_size,
                                direct[i].team_size_min, direct[i].team_size_max,
                                direct[i].team_range_evidence)

\* C30 witness: a call with a range, a stated preference inside it and a
\* low-confidence extraction, answered with three unknowns
C30_Witness ==
    /\ Len(direct) = 1
    /\ direct[1].fn = "generate_unknowns"
    /\ direct[1].deadline_days = NONE
    /\ direct[1].team_size_min # NONE /\ direct[1].team_size_max # NONE
    /\ Len(direct[1].extractions) = 1
    /\ Len(direct[1].ret) = 3
    /\ direct[1].ret[2].id = "team_range_specific"
    /\ direct[1].ret[3].id = "low_confidence"

====
